---- MODULE Spec2Model ----
(***************************************************************************)
(* The red-black binary search tree custom::BST<T> (src/unnamed/part_000)  *)
(* as a state machine over an explicit heap of BNode objects.              *)
(*                                                                         *)
(* A BNode pointer is a node id in Nodes, or NULL.  `new BNode` returns an *)
(* id never handed out before (which one is the allocator's choice and no  *)
(* code depends on it); `delete` puts the id in `freed` and leaves the     *)
(* bytes of the object as they were: a later read through a dangling       *)
(* pointer sees the stale object, or the process dies.                     *)
(***************************************************************************)
EXTENDS Integers, Sequences, FiniteSets, TLC

\* Bounds of the model.
MaxVal   == 5          \* the element type T is modelled by MaxVal ints
MaxNodes == 6          \* at most MaxNodes nodes exist at a time, those erase deleted included
MaxErase == 1          \* erase deletes a node MaxErase times
MaxDup   == 1          \* insert(t, false) stores a value that a node holds already MaxDup times
MaxRegrow == 3         \* after an erase, or beside a second tree that holds nodes, insert is
                       \* called on trees of fewer than MaxRegrow elements
MaxKey   == 2          \* map::insert is called with the first MaxKey keys
MaxList  == 2          \* the second tree is constructed from a list of at most MaxList values
MaxFragment == 9       \* a piece of a tree handed to balance() on its own has at most
                       \* MaxFragment nodes

NULL   == 0
Nodes  == 1..MaxNodes
Ptrs   == Nodes \cup {NULL}
Values == {10 * i : i \in 1..MaxVal}

\* a map<K, V>: K is T, Keys are the keys given to map::insert, V is a string
Keys    == {10 * i : i \in 1..MaxKey}
Mapped  == {"a", "b"}
Default == ""        \* V()

VARIABLES
    data,         \* BNode::data      (part_000:290)
    pLeft,        \* BNode::pLeft     (part_000:291)
    pRight,       \* BNode::pRight    (part_000:292)
    pParent,      \* BNode::pParent   (part_000:293)
    isRed,        \* BNode::isRed     (part_000:294)
    allocated,    \* ids handed out by `new BNode`
    freed,        \* ids given back by `delete`
    root,         \* BST::root        (part_000:120)
    numElements,  \* BST::numElements (part_000:121)
    dataSecond,   \* BNode::data.second when T is pair<K, V> (map.h:180); data is then data.first
    rhs,          \* a second BST, the argument of swap and operator=: its root and numElements
    op,           \* the call that produced this state, with its arguments
    ret,          \* what that call returned
    status,       \* "ok", "crashed" (null or dangling dereference), "hung" (a loop that never ends)
    hist,         \* SpecInsert's history: the values for which insert created a node, in call order
    workload      \* "unique": only insert(_, true) so far; "inserts": only inserts; "mixed"

vars == <<data, pLeft, pRight, pParent, isRed, allocated, freed, root,
          numElements, dataSecond, rhs, op, ret, status, hist, workload>>

heapVars == <<data, pLeft, pRight, pParent, isRed, allocated, freed>>
treeVars == <<data, pLeft, pRight, pParent, isRed, allocated, freed, root, numElements>>

-----------------------------------------------------------------------------
(* The heap as one value, so that the member functions are operators.      *)
(* fault: "none", "null" (a null pointer was dereferenced), "loop" (a      *)
(* loop or recursion did not end).                                         *)

Heap == [data |-> data, pLeft |-> pLeft, pRight |-> pRight, pParent |-> pParent,
         isRed |-> isRed, fault |-> "none"]

Fault(h, f) == [h EXCEPT !.fault = IF h.fault = "none" THEN f ELSE h.fault]

\* BNode(const T& t): data(t), the three links null, isRed = true
NewNode(h, n, t) ==
    [h EXCEPT !.data[n] = t, !.pLeft[n] = NULL, !.pRight[n] = NULL,
              !.pParent[n] = NULL, !.isRed[n] = TRUE]

\* bool isRightChild(BNode*) const: the argument is not used
isRightChild(h, n) == h.pParent[n] # NULL /\ h.pRight[h.pParent[n]] = n

\* bool isLeftChild(BNode*) const: the argument is not used
isLeftChild(h, n) == h.pParent[n] # NULL /\ h.pLeft[h.pParent[n]] = n

\* void addLeft(BNode* pNode), called on node n
addLeft(h, n, c) ==
    LET h1 == IF c # NULL THEN [h EXCEPT !.pParent[c] = n] ELSE h
    IN  [h1 EXCEPT !.pLeft[n] = c]

\* void addRight(BNode* pNode), called on node n
addRight(h, n, c) ==
    LET h1 == IF c # NULL THEN [h EXCEPT !.pParent[c] = n] ELSE h
    IN  [h1 EXCEPT !.pRight[n] = c]

\* void addLeft(const T& t), called on node n; a is the address `new` returns
addLeftValue(h, n, a, t) ==
    LET h1 == NewNode(h, a, t)
    IN  [h1 EXCEPT !.pParent[a] = n, !.pLeft[n] = a]

\* void addRight(const T& t), called on node n; a is the address `new` returns
addRightValue(h, n, a, t) ==
    LET h1 == NewNode(h, a, t)
    IN  [h1 EXCEPT !.pParent[a] = n, !.pRight[n] = a]

-----------------------------------------------------------------------------
(* BNode::balance, cases 4a..4d.  n is `this`; g, gg and sib are the       *)
(* locals pGrandparent, pGreatGranny and pSibling, read before any         *)
(* rotation; pParent is the member, read again wherever the code names it. *)

\* Case4a with the hand-over of the sibling to the grandparent left out
Case4aKeepsSibling(h, n, g, gg, sib) ==
    LET p == h.pParent[n] IN
    IF isLeftChild(h, n) /\ isLeftChild(h, p) /\ h.isRed[p] /\ ~h.isRed[g]
    THEN LET h1 == addRight(h, p, g)
             h3 == [h1 EXCEPT !.pParent[p] = gg]
             h4 == IF gg # NULL
                   THEN IF isRightChild(h3, g)
                        THEN [h3 EXCEPT !.pLeft[gg] = p]
                        ELSE [h3 EXCEPT !.pRight[gg] = p]
                   ELSE h3
         IN  [h4 EXCEPT !.isRed[p] = FALSE, !.isRed[g] = TRUE]
    ELSE h

Case4a(h, n, g, gg, sib) ==
    LET p == h.pParent[n] IN
    IF isLeftChild(h, n) /\ isLeftChild(h, p) /\ h.isRed[p] /\ ~h.isRed[g]
    THEN LET h1 == addRight(h, p, g)
             h2 == addLeft(h1, g, sib)
             h3 == [h2 EXCEPT !.pParent[p] = gg]
             h4 == IF gg # NULL
                   THEN IF isRightChild(h3, g)
                        THEN [h3 EXCEPT !.pLeft[gg] = p]
                        ELSE [h3 EXCEPT !.pRight[gg] = p]
                   ELSE h3
         IN  [h4 EXCEPT !.isRed[p] = FALSE, !.isRed[g] = TRUE]
    ELSE h

\* Case4b with the recoloring of the parent and the grandparent left out
Case4bNoRecolor(h, n, g, gg, sib) ==
    LET p == h.pParent[n] IN
    IF isRightChild(h, n) /\ isRightChild(h, p) /\ h.isRed[p] /\ ~h.isRed[g]
    THEN LET h1 == addLeft(h, p, g)
             h2 == addRight(h1, g, sib)
             h3 == [h2 EXCEPT !.pParent[p] = gg]
         IN  IF gg # NULL
             THEN IF isRightChild(h3, g)
                  THEN [h3 EXCEPT !.pLeft[gg] = p]
                  ELSE [h3 EXCEPT !.pRight[gg] = p]
             ELSE h3
    ELSE h

Case4b(h, n, g, gg, sib) ==
    LET p == h.pParent[n] IN
    IF isRightChild(h, n) /\ isRightChild(h, p) /\ h.isRed[p] /\ ~h.isRed[g]
    THEN LET h1 == addLeft(h, p, g)
             h2 == addRight(h1, g, sib)
             h3 == [h2 EXCEPT !.pParent[p] = gg]
             h4 == IF gg # NULL
                   THEN IF isRightChild(h3, g)
                        THEN [h3 EXCEPT !.pLeft[gg] = p]
                        ELSE [h3 EXCEPT !.pRight[gg] = p]
                   ELSE h3
         IN  [h4 EXCEPT !.isRed[p] = FALSE, !.isRed[g] = TRUE]
    ELSE h

\* a rotation that exchanges the values of two nodes instead of relinking them
Case4cSwapsData(h, n, g, gg, sib) ==
    LET p == h.pParent[n] IN
    IF isRightChild(h, n) /\ isLeftChild(h, p) /\ h.isRed[p] /\ ~h.isRed[g]
    THEN [h EXCEPT !.data[n] = h.data[p], !.data[p] = h.data[n], !.isRed[p] = FALSE]
    ELSE h

Case4c(h, n, g, gg, sib) ==
    LET p == h.pParent[n] IN
    IF isRightChild(h, n) /\ isLeftChild(h, p) /\ h.isRed[p] /\ ~h.isRed[g]
    THEN LET h1 == addLeft(h, g, h.pRight[n])
             h2 == addRight(h1, p, h1.pLeft[n])
             h3 == addRight(h2, n, g)
             h4 == addLeft(h3, n, p)
             h5 == IF gg = NULL
                   THEN [h4 EXCEPT !.pParent[n] = gg]
                   ELSE IF isRightChild(h4, g)
                        THEN [h4 EXCEPT !.pRight[gg] = h4.pParent[n]]
                        ELSE [h4 EXCEPT !.pLeft[gg] = h4.pParent[n]]
         IN  [h5 EXCEPT !.isRed[g] = TRUE, !.isRed[n] = FALSE]
    ELSE h

Case4d(h, n, g, gg, sib) ==
    LET p == h.pParent[n] IN
    IF isLeftChild(h, n) /\ isRightChild(h, p) /\ h.isRed[p] /\ ~h.isRed[g]
    THEN LET h1 == addRight(h, g, h.pLeft[n])
             h2 == addLeft(h1, p, h1.pRight[n])
             h3 == addLeft(h2, n, g)
             h4 == addRight(h3, n, p)
             h5 == IF gg = NULL
                   THEN [h4 EXCEPT !.pParent[n] = gg]
                   ELSE IF isRightChild(h4, g)
                        THEN [h4 EXCEPT !.pRight[gg] = h4.pParent[n]]
                        ELSE [h4 EXCEPT !.pLeft[gg] = h4.pParent[n]]
         IN  [h5 EXCEPT !.isRed[g] = TRUE, !.isRed[n] = FALSE]
    ELSE h

\* Case 4: the four tests run one after the other, each on what the one before left
Case4(h, n, g, gg, sib) ==
    Case4d(Case4c(Case4b(Case4a(h, n, g, gg, sib), n, g, gg, sib), n, g, gg, sib), n, g, gg, sib)

\* Case 3, after pGrandparent->balance() has returned: only the parent turns black
Case3LeavesAunt(h, n, aunt) == [h EXCEPT !.isRed[h.pParent[n]] = FALSE]

\* Case 3, after pGrandparent->balance() has returned: recolor parent and aunt
Case3Recolor(h, n, aunt) ==
    [h EXCEPT !.isRed[h.pParent[n]] = FALSE, !.isRed[aunt] = FALSE]

\* void BNode::balance(), called on node n; fuel bounds the recursion depth
RECURSIVE balance(_, _, _)
balance(h, n, fuel) ==
    IF h.fault # "none" THEN h
    ELSE IF fuel = 0 THEN Fault(h, "loop")
    ELSE IF h.pParent[n] = NULL THEN [h EXCEPT !.isRed[n] = FALSE]
    ELSE IF ~h.isRed[h.pParent[n]] THEN h
    ELSE LET g == h.pParent[h.pParent[n]] IN
         IF g = NULL THEN Fault(h, "null")
         ELSE LET gg   == h.pParent[g]
                  aunt == IF h.pParent[n] = h.pLeft[g] THEN h.pRight[g] ELSE h.pLeft[g]
                  sib  == IF isLeftChild(h, n) THEN h.pRight[h.pParent[n]]
                                               ELSE h.pLeft[h.pParent[n]]
              IN  IF aunt # NULL /\ h.isRed[aunt]
                  THEN LET h1 == [h EXCEPT !.isRed[g] = TRUE]
                           h2 == balance(h1, g, fuel - 1)
                       IN  IF h2.fault # "none" THEN h2
                           ELSE IF h2.pParent[n] = NULL THEN Fault(h2, "null")
                           ELSE Case3Recolor(h2, n, aunt)
                  ELSE Case4(h, n, g, gg, sib)

-----------------------------------------------------------------------------
(* BST::_insert(pNode, t, keepUnique), entered with pNode non-null (insert *)
(* calls it only when root is non-null).  a is the address the next `new`  *)
(* returns, NULL once the model's bound on `new` is reached (the call is   *)
(* then left out).  The result is the heap and the pair's two members.     *)
(* After balance() the iterator is built from BST::root, which insert()    *)
(* has not re-derived yet.                                                 *)

RECURSIVE _insert(_, _, _, _, _, _, _)
_insert(h, r, pNode, t, keepUnique, a, fuel) ==
    IF fuel = 0 THEN [h |-> Fault(h, "loop"), it |-> NULL, second |-> FALSE]
    ELSE IF keepUnique /\ t = h.data[pNode]
    THEN [h |-> h, it |-> pNode, second |-> FALSE]
    ELSE IF t < h.data[pNode]
    THEN IF h.pLeft[pNode] # NULL
         THEN _insert(h, r, h.pLeft[pNode], t, keepUnique, a, fuel - 1)
         ELSE LET h1 == addLeftValue(h, pNode, a, t)
                  h2 == balance(h1, h1.pLeft[pNode], MaxNodes + 1)
              IN  IF a = NULL THEN [h |-> h, it |-> NULL, second |-> TRUE]
                  ELSE [h |-> h2, it |-> h2.pLeft[r], second |-> TRUE]
    ELSE IF h.pRight[pNode] # NULL
         THEN _insert(h, r, h.pRight[pNode], t, keepUnique, a, fuel - 1)
         ELSE LET h1 == addRightValue(h, pNode, a, t)
                  h2 == balance(h1, h1.pRight[pNode], MaxNodes + 1)
              IN  IF a = NULL THEN [h |-> h, it |-> NULL, second |-> TRUE]
                  ELSE [h |-> h2, it |-> h2.pRight[r], second |-> TRUE]

\* insert(): while (root->pParent) root = root->pParent;  NULL when the walk never ends
RECURSIVE rootOf(_, _, _)
rootOf(h, r, fuel) ==
    IF fuel = 0 THEN NULL
    ELSE IF h.pParent[r] = NULL THEN r
    ELSE rootOf(h, h.pParent[r], fuel - 1)

\* the address `new BNode(t)` returns: the allocator of the model hands out id t/10 when
\* it is unused, else the smallest unused id; NULL once MaxNodes nodes were created
NextNodeIn(used, t) ==
    IF used = Nodes THEN NULL
    ELSE IF (t \div 10) \in Nodes \ used THEN t \div 10
    ELSE CHOOSE a \in Nodes \ used : \A b \in Nodes \ used : a <= b

NextNode(t) == NextNodeIn(allocated, t)

\* the nodes an insert of t reads on its way down from r (for a dangling-pointer check)
RECURSIVE descent(_, _, _, _)
descent(h, r, t, fuel) ==
    IF r = NULL \/ fuel = 0 THEN {}
    ELSE {r} \cup descent(h, IF t < h.data[r] THEN h.pLeft[r] ELSE h.pRight[r], t, fuel - 1)

-----------------------------------------------------------------------------
(* BST::iterator.  An iterator is its pNode.  HUNG stands for a call whose *)
(* loop never ends (the links it follows form a cycle).                    *)

HUNG == -1

\* while (pNode->pLeft) pNode = pNode->pLeft;
RECURSIVE leftmost(_, _, _)
leftmost(h, n, fuel) ==
    IF fuel = 0 THEN HUNG
    ELSE IF h.pLeft[n] = NULL THEN n
    ELSE leftmost(h, h.pLeft[n], fuel - 1)

\* while (pNode->pRight) pNode = pNode->pRight;
RECURSIVE rightmost(_, _, _)
rightmost(h, n, fuel) ==
    IF fuel = 0 THEN HUNG
    ELSE IF h.pRight[n] = NULL THEN n
    ELSE rightmost(h, h.pRight[n], fuel - 1)

\* while (pNode->pParent && pNode->isRightChild(pNode->pParent)) pNode = pNode->pParent;
RECURSIVE climbRight(_, _, _)
climbRight(h, n, fuel) ==
    IF fuel = 0 THEN HUNG
    ELSE IF h.pParent[n] # NULL /\ isRightChild(h, n) THEN climbRight(h, h.pParent[n], fuel - 1)
    ELSE n

\* operator++ that, from a right child, goes up one level only
incrementOneLevel(h, n) ==
    IF n = NULL THEN NULL
    ELSE IF h.pRight[n] # NULL THEN leftmost(h, h.pRight[n], MaxNodes + 1)
    ELSE IF isLeftChild(h, n) THEN h.pParent[n]
    ELSE IF isRightChild(h, n) THEN h.pParent[h.pParent[n]]
    ELSE n

\* iterator& iterator::operator++()
increment(h, n) ==
    IF n = NULL THEN NULL
    ELSE IF h.pRight[n] # NULL THEN leftmost(h, h.pRight[n], MaxNodes + 1)
    ELSE IF isLeftChild(h, n) THEN h.pParent[n]
    ELSE IF isRightChild(h, n)
         THEN LET top == climbRight(h, n, MaxNodes + 1)
              IN  IF top = HUNG THEN HUNG ELSE h.pParent[top]
    ELSE n

\* the while (pNode->pParent) loop of operator--
RECURSIVE climbLeft(_, _, _)
climbLeft(h, n, fuel) ==
    IF fuel = 0 THEN HUNG
    ELSE IF h.pParent[n] = NULL THEN n
    ELSE IF isRightChild(h, n) THEN h.pParent[n]
    ELSE IF h.pParent[h.pParent[n]] = NULL THEN NULL
    ELSE climbLeft(h, h.pParent[n], fuel - 1)

\* iterator& iterator::operator--()
decrement(h, n) ==
    IF n = NULL THEN NULL
    ELSE IF h.pLeft[n] # NULL THEN rightmost(h, h.pLeft[n], MaxNodes + 1)
    ELSE climbLeft(h, n, MaxNodes + 1)

\* begin that returns the root without going left
beginAtRoot(h, r) == r

\* iterator BST::begin() const
begin(h, r) ==
    IF r = NULL THEN NULL ELSE leftmost(h, r, MaxNodes + 1)

\* find with the two directions of the descent exchanged
RECURSIVE findWrongWay(_, _, _, _)
findWrongWay(h, p, t, fuel) ==
    IF fuel = 0 THEN HUNG
    ELSE IF p = NULL THEN NULL
    ELSE IF h.data[p] = t THEN p
    ELSE IF t < h.data[p] THEN findWrongWay(h, h.pRight[p], t, fuel - 1)
    ELSE findWrongWay(h, h.pLeft[p], t, fuel - 1)

\* iterator BST::find(const T& t), from p = root
RECURSIVE find(_, _, _, _)
find(h, p, t, fuel) ==
    IF fuel = 0 THEN HUNG
    ELSE IF p = NULL THEN NULL
    ELSE IF h.data[p] = t THEN p
    ELSE IF t < h.data[p] THEN find(h, h.pLeft[p], t, fuel - 1)
    ELSE find(h, h.pRight[p], t, fuel - 1)

\* the nodes find(t) reads
RECURSIVE findPath(_, _, _, _)
findPath(h, p, t, fuel) ==
    IF fuel = 0 \/ p = NULL THEN {}
    ELSE IF h.data[p] = t THEN {p}
    ELSE {p} \cup findPath(h, IF t < h.data[p] THEN h.pLeft[p] ELSE h.pRight[p], t, fuel - 1)

\* the nodes begin() reads
RECURSIVE leftSpine(_, _, _)
leftSpine(h, p, fuel) ==
    IF fuel = 0 \/ p = NULL THEN {}
    ELSE {p} \cup leftSpine(h, h.pLeft[p], fuel - 1)

-----------------------------------------------------------------------------
(* BST::erase(iterator& it) with it.pNode = n, on heap h of a tree whose   *)
(* root is r.  The result: the heap, the root, the iterator returned,      *)
(* deleted = TRUE when `delete it.pNode; --numElements;` ran, and          *)
(* nullStore = TRUE when the call stores through a null pParent (the store *)
(* is then left out of the heap).                                          *)

\* CASE ONE: no children
eraseLeaf(h, r, n) ==
    LET p == h.pParent[n]
        h1 == IF p = NULL THEN h
              ELSE IF isRightChild(h, n) THEN [h EXCEPT !.pRight[p] = NULL]
              ELSE [h EXCEPT !.pLeft[p] = NULL]
    IN  [h |-> h1, root |-> r, it |-> increment(h, n), deleted |-> TRUE,
         nullStore |-> (p = NULL)]

\* CASE TWO: exactly one child c (pLeft when pRight is null, else pRight)
eraseOneChild(h, r, n, c) ==
    LET p  == h.pParent[n]
        h0 == [h EXCEPT !.pParent[c] = p]
        h1 == IF p = NULL THEN h0
              ELSE IF isRightChild(h0, n) THEN [h0 EXCEPT !.pRight[p] = c]
              ELSE [h0 EXCEPT !.pLeft[p] = c]
    IN  [h |-> h1, root |-> r, it |-> increment(h, n), deleted |-> TRUE,
         nullStore |-> (p = NULL)]

\* CASE THREE, the successor s leaves its place: the slot of its parent
\* takes its right child (a store through a null parent is left out)
detachSuccessor(h, s) ==
    IF isLeftChild(h, s) THEN [h EXCEPT !.pLeft[h.pParent[s]] = h.pRight[s]]
    ELSE IF h.pParent[s] = NULL THEN h
    ELSE [h EXCEPT !.pRight[h.pParent[s]] = h.pRight[s]]

\* if (pSuccessor.pNode->pRight) pSuccessor.pNode->pRight->pParent = ...
adoptRight(h, s) ==
    IF h.pRight[s] # NULL THEN [h EXCEPT !.pParent[h.pRight[s]] = h.pParent[s]] ELSE h

\* if (it.pNode->pParent) the parent's slot of n takes s (else root = s)
replaceInParent(h, n, s) ==
    IF h.pParent[n] = NULL THEN h
    ELSE IF isLeftChild(h, n) THEN [h EXCEPT !.pLeft[h.pParent[n]] = s]
    ELSE [h EXCEPT !.pRight[h.pParent[n]] = s]

\* s takes the three links of n (three stores to three different fields of s)
takeLinks(h, n, s) ==
    [h EXCEPT !.pParent[s] = h.pParent[n], !.pLeft[s] = h.pLeft[n], !.pRight[s] = h.pRight[n]]

\* if (p) p->pParent = s
setParent(h, c, s) ==
    IF c # NULL THEN [h EXCEPT !.pParent[c] = s] ELSE h

\* the children of n take s as their parent
adoptChildren(h, n, s) ==
    setParent(setParent(h, h.pLeft[n], s), h.pRight[n], s)

\* CASE THREE as a red-black erase would do it: s also takes the color of n
spliceInTakesColor(h, r, n, s, nullStore) ==
    [h |-> [adoptChildren(takeLinks(replaceInParent(h, n, s), n, s), n, s)
               EXCEPT !.isRed[s] = h.isRed[n]],
     root |-> IF h.pParent[n] # NULL THEN r ELSE s,
     it |-> s, deleted |-> TRUE, nullStore |-> nullStore]

\* CASE THREE from the store to the parent of n on; h is the heap before it
spliceIn(h, r, n, s, nullStore) ==
    [h |-> adoptChildren(takeLinks(replaceInParent(h, n, s), n, s), n, s),
     root |-> IF h.pParent[n] # NULL THEN r ELSE s,
     it |-> s, deleted |-> TRUE, nullStore |-> nullStore]

\* CASE THREE: two children; s is pSuccessor.pNode
eraseTwoChildren(h, r, n, s) ==
    spliceIn(adoptRight(detachSuccessor(h, s), s), r, n, s,
             ~isLeftChild(h, s) /\ h.pParent[s] = NULL)

\* erase: the three cases, it.pNode = n non-null
eraseCases(h, r, n) ==
    IF h.pRight[n] = NULL /\ h.pLeft[n] = NULL THEN eraseLeaf(h, r, n)
    ELSE IF h.pRight[n] = NULL THEN eraseOneChild(h, r, n, h.pLeft[n])
    ELSE IF h.pLeft[n] = NULL THEN eraseOneChild(h, r, n, h.pRight[n])
    ELSE LET s == increment(h, n)
         IN  IF s = HUNG
             THEN [h |-> h, root |-> r, it |-> HUNG, deleted |-> FALSE, nullStore |-> FALSE]
             ELSE eraseTwoChildren(h, r, n, s)

\* erase that counts end() as an element: --numElements before the early return
eraseCountsEnd(h, r, n) ==
    IF n = NULL THEN [h |-> h, root |-> r, it |-> n, deleted |-> TRUE, nullStore |-> FALSE]
    ELSE eraseCases(h, r, n)

\* iterator BST::erase(iterator& it)
erase(h, r, n) ==
    IF n = NULL THEN [h |-> h, root |-> r, it |-> n, deleted |-> FALSE, nullStore |-> FALSE]
    ELSE eraseCases(h, r, n)

\* the objects erase(it) reads or writes
eraseTouches(h, n) ==
    IF n = NULL THEN {}
    ELSE LET s == increment(h, n)
         IN  ({n, h.pParent[n], h.pLeft[n], h.pRight[n]}
              \cup (IF s \in Nodes THEN {s, h.pParent[s], h.pRight[s]} ELSE {})) \ {NULL}

-----------------------------------------------------------------------------
TypeOK ==
    /\ data \in [Nodes -> Values \cup {0}]
    /\ pLeft \in [Nodes -> Ptrs] /\ pRight \in [Nodes -> Ptrs] /\ pParent \in [Nodes -> Ptrs]
    /\ isRed \in [Nodes -> BOOLEAN]
    /\ allocated \subseteq Nodes /\ freed \subseteq allocated
    /\ root \in Ptrs /\ numElements \in Int
    /\ rhs \in [root : Ptrs, numElements : Int]
    /\ dataSecond \in [Nodes -> Mapped \cup {Default}]
    /\ status \in {"ok", "crashed", "hung"}
    /\ workload \in {"unique", "inserts", "mixed"}

\* BST(): root(nullptr), numElements(0)
Init ==
    /\ data = [n \in Nodes |-> 0]
    /\ pLeft = [n \in Nodes |-> NULL]
    /\ pRight = [n \in Nodes |-> NULL]
    /\ pParent = [n \in Nodes |-> NULL]
    /\ isRed = [n \in Nodes |-> TRUE]
    /\ allocated = {}
    /\ freed = {}
    /\ root = NULL
    /\ numElements = 0
    /\ rhs = [root |-> NULL, numElements |-> 0]
    /\ dataSecond = [n \in Nodes |-> Default]
    /\ op = [name |-> "BST"]
    /\ ret = [it |-> NULL, second |-> FALSE]
    /\ status = "ok"
    /\ hist = <<>>
    /\ workload = "unique"

SetHeap(h) ==
    /\ data' = h.data
    /\ pLeft' = h.pLeft
    /\ pRight' = h.pRight
    /\ pParent' = h.pParent
    /\ isRed' = h.isRed

\* the process dies in the call: nothing of the call is observed
Crash(o) ==
    /\ status' = "crashed"
    /\ op' = o
    /\ UNCHANGED <<treeVars, ret, workload>>

\* how many nodes were created for a value that an earlier node held
Duplicates == Cardinality(allocated) - Cardinality({data[n] : n \in allocated})

\* numElements++ whatever _insert returned
countAlways(n, second) == n + 1

\* if (result.second) numElements++;
countInserted(n, second) == IF second THEN n + 1 ELSE n

\* std::pair<iterator, bool> BST::insert(const T& t, bool keepUnique)
insertCall(t, keepUnique) ==
    LET o  == [name |-> "insert", t |-> t, keepUnique |-> keepUnique]
        wl == IF workload = "unique" /\ ~keepUnique THEN "inserts" ELSE workload
    IN
    /\ status = "ok"
    /\ (\E n \in allocated : data[n] = t) /\ ~keepUnique => Duplicates < MaxDup
    /\ (freed # {} \/ rhs.root # NULL) => numElements < MaxRegrow
    /\ IF root # NULL
       THEN LET res == _insert(Heap, root, root, t, keepUnique, NextNode(t), MaxNodes + 1)
                r1  == rootOf(res.h, root, MaxNodes + 1)
            IN  \* a node is created only when the value is not found: bound on `new`
                /\ (NextNode(t) # NULL \/ ~res.second)
                /\ \/ /\ res.h.fault = "none" /\ r1 # NULL
                      /\ SetHeap(res.h)
                      /\ allocated' = IF res.second THEN allocated \cup {NextNode(t)} ELSE allocated
                      /\ numElements' = countInserted(numElements, res.second)
                      /\ root' = r1
                      /\ ret' = [it |-> res.it, second |-> res.second]
                      /\ status' = "ok"
                      /\ op' = o
                      /\ workload' = wl
                      /\ UNCHANGED freed
                   \/ /\ res.h.fault = "null"
                      /\ Crash(o)
                   \/ /\ res.h.fault = "loop" \/ (res.h.fault = "none" /\ r1 = NULL)
                      /\ status' = "hung"
                      /\ op' = o
                      /\ UNCHANGED <<treeVars, ret, workload>>
                   \/ /\ descent(Heap, root, t, MaxNodes + 1) \cap freed # {}
                      /\ Crash(o)
       ELSE /\ NextNode(t) # NULL
            /\ SetHeap([NewNode(Heap, NextNode(t), t) EXCEPT !.isRed[NextNode(t)] = FALSE])
            /\ allocated' = allocated \cup {NextNode(t)}
            /\ root' = NextNode(t)
            /\ numElements' = numElements + 1
            /\ ret' = [it |-> NextNode(t), second |-> TRUE]
            /\ op' = o
            /\ workload' = wl
            /\ UNCHANGED <<freed, status>>

insert(t, keepUnique) ==
    /\ insertCall(t, keepUnique)
    /\ UNCHANGED <<hist, rhs, dataSecond>>

\* insert, with the call logged in hist when it created a node
insertLogged(t, keepUnique) ==
    /\ insertCall(t, keepUnique)
    /\ hist' = IF status' = "ok" /\ ret'.second THEN Append(hist, t) ELSE hist
    /\ UNCHANGED <<rhs, dataSecond>>

\* a call that leaves the tree alone and returns iterator i (HUNG: it never returns)
Observe(o, i, touched) ==
    /\ status = "ok"
    /\ op' = o
    /\ \/ /\ i # HUNG
          /\ ret' = [it |-> i, second |-> FALSE]
          /\ UNCHANGED status
       \/ /\ i = HUNG
          /\ status' = "hung"
          /\ UNCHANGED ret
       \/ /\ touched \cap freed # {}
          /\ status' = "crashed"
          /\ UNCHANGED ret
    /\ UNCHANGED <<treeVars, rhs, dataSecond, hist, workload>>

\* it = tree.find(t)
Find(t) ==
    Observe([name |-> "find", t |-> t], find(Heap, root, t, MaxNodes + 1),
            findPath(Heap, root, t, MaxNodes + 1))

\* it = tree.begin()
Begin ==
    Observe([name |-> "begin"], begin(Heap, root), leftSpine(Heap, root, MaxNodes + 1))

\* it = tree.end()
End ==
    Observe([name |-> "end"], NULL, {})

\* ++it, on the iterator the last call returned
Increment ==
    /\ op.name \in {"begin", "find", "++"}
    /\ Observe([name |-> "++"], increment(Heap, ret.it), {ret.it} \ {NULL})

\* --it, on the iterator the last call returned
Decrement ==
    /\ op.name \in {"begin", "find", "++", "--"}
    /\ Observe([name |-> "--"], decrement(Heap, ret.it), {ret.it} \ {NULL})

\* it = tree.erase(it), on the iterator the last call returned
eraseCall ==
    LET o   == [name |-> "erase"]
        n   == ret.it
        res == erase(Heap, root, n)
    IN
    /\ status = "ok"
    /\ UNCHANGED <<rhs, dataSecond>>
    /\ op.name \in {"begin", "find", "end", "++", "--", "erase"}
    /\ \/ /\ res.it # HUNG /\ n \notin freed
             \* (a store through a null pParent is let pass by the build)
          /\ SetHeap(res.h)
          /\ root' = res.root
          /\ freed' = IF res.deleted THEN freed \cup {n} ELSE freed
          /\ numElements' = IF res.deleted THEN numElements - 1 ELSE numElements
          /\ ret' = [it |-> res.it, second |-> FALSE]
          /\ op' = o
          /\ workload' = IF res.deleted THEN "mixed" ELSE workload
          /\ UNCHANGED <<allocated, status, hist>>
       \/ /\ res.it # HUNG
             \* the store through a null pParent traps, or the call
             \* reads or deletes an object that was deleted before
          /\ res.nullStore \/ eraseTouches(Heap, n) \cap freed # {}
          /\ Crash(o)
          /\ UNCHANGED hist
       \/ /\ res.it = HUNG
          /\ status' = "hung"
          /\ op' = o
          /\ UNCHANGED <<treeVars, ret, hist, workload>>

\* t.erase(it), with it from begin, find, end, ++, -- or erase
Erase ==
    /\ ret.it # NULL => Cardinality(freed) < MaxErase
    /\ eraseCall

\* it = t.erase(it); it = t.erase(it): erase called again on the iterator erase returned
EraseNext ==
    /\ op.name = "erase" /\ ret.it # NULL
    /\ Cardinality(freed) = MaxErase
    /\ eraseCall

\* void BST::_clear(BNode*& pThis) on heap h: the nodes in the order of their
\* `delete` (L, R, V); HUNG closes a recursion that has not ended after `fuel` levels
RECURSIVE _clear(_, _, _)
_clear(h, pThis, fuel) ==
    IF pThis = NULL THEN <<>>
    ELSE IF fuel = 0 THEN <<HUNG>>
    ELSE _clear(h, h.pLeft[pThis], fuel - 1) \o _clear(h, h.pRight[pThis], fuel - 1)
            \o <<pThis>>

\* the nodes that the links lead to from the nodes of S, in `fuel` steps or fewer
RECURSIVE Linked(_, _, _)
Linked(h, S, fuel) ==
    IF fuel = 0 THEN S
    ELSE Linked(h, (S \cup {h.pLeft[n] : n \in S} \cup {h.pRight[n] : n \in S}
                      \cup {h.pParent[n] : n \in S}) \ {NULL}, fuel - 1)

\* the nodes no call can reach again once the tree holds no node: all but the
\* deleted ones and those the second tree leads to
Lost == Nodes \ (freed \cup Linked(Heap, {rhs.root} \ {NULL}, MaxNodes))

\* the heap once the nodes of D are deleted or lost: no call reads them again, and
\* the model keeps nothing of their contents
Released(h, D) ==
    [h EXCEPT !.data   = [n \in Nodes |-> IF n \in D THEN 0 ELSE h.data[n]],
              !.pLeft  = [n \in Nodes |-> IF n \in D THEN NULL ELSE h.pLeft[n]],
              !.pRight = [n \in Nodes |-> IF n \in D THEN NULL ELSE h.pRight[n]],
              !.pParent = [n \in Nodes |-> IF n \in D THEN NULL ELSE h.pParent[n]],
              !.isRed  = [n \in Nodes |-> IF n \in D THEN TRUE ELSE h.isRed[n]]]

\* no object is deleted twice: the deletions are of different nodes, none deleted before
DeletesOnce(order) ==
    /\ HUNG \notin {order[i] : i \in 1..Len(order)}
    /\ Cardinality({order[i] : i \in 1..Len(order)}) = Len(order)
    /\ {order[i] : i \in 1..Len(order)} \cap freed = {}

\* void BST::clear() noexcept
clearCall ==
    LET o     == [name |-> "clear"]
        order == _clear(Heap, root, MaxNodes + 1)
        D     == {order[i] : i \in 1..Len(order)} \ {HUNG}
    IN
    /\ status = "ok"
    /\ \/ /\ HUNG \notin {order[i] : i \in 1..Len(order)}
             \* (a second delete of an object is let pass by the build)
             \* (nodes the tree had lost keep their storage, unread from now on)
          /\ SetHeap(Released(Heap, Lost))
          /\ root' = NULL
          /\ numElements' = 0
          /\ allocated' = allocated \ D
          /\ freed' = freed \ D
          /\ ret' = [it |-> NULL, second |-> FALSE]
          /\ op' = o
          /\ workload' = "mixed"
          /\ UNCHANGED status
       \/ /\ ~DeletesOnce(order)
             \* the recursion never ends, or an object is read and deleted after its delete
          /\ Crash(o)

\* clear, with the log of the inserts emptied
clearLogged ==
    /\ clearCall
    /\ hist' = IF status' = "ok" THEN <<>> ELSE hist
    /\ UNCHANGED <<rhs, dataSecond>>

-----------------------------------------------------------------------------
(* BST::_assign(BNode*& pDest, const BNode* pSrc).  The state st of a call *)
(* is the heap h, the ids in use, the nodes deleted so far in order, and   *)
(* nomem = TRUE once `new` had no node left to give.  The result is st and *)
(* node, the value of pDest when the call returns.                         *)

\* pDest = new BNode(pSrc->data), or pDest->data = pSrc->data; then
\* pDest->isRed = pSrc->isRed; a is the node pDest references afterwards
assignNode(st, d, s, a) ==
    IF a = NULL THEN [st EXCEPT !.nomem = TRUE]
    ELSE IF d = NULL
    THEN [st EXCEPT !.h = [NewNode(st.h, a, st.h.data[s]) EXCEPT !.isRed[a] = st.h.isRed[s]],
                    !.used = @ \cup {a}]
    ELSE [st EXCEPT !.h = [st.h EXCEPT !.data[a] = st.h.data[s], !.isRed[a] = st.h.isRed[s]]]

\* the right (side = "R") or left child of n
child(h, side, n) == IF side = "R" THEN h.pRight[n] ELSE h.pLeft[n]

\* the child slot of a takes r.node, the result of the call made on it;
\* if (pDest->pRight) pDest->pRight->pParent = pDest;
attach(side, a, r) ==
    IF r.node = NULL
    THEN IF side = "R" THEN [r.st EXCEPT !.h.pRight[a] = NULL]
         ELSE [r.st EXCEPT !.h.pLeft[a] = NULL]
    ELSE IF side = "R" THEN [r.st EXCEPT !.h.pRight[a] = r.node, !.h.pParent[r.node] = a]
         ELSE [r.st EXCEPT !.h.pLeft[a] = r.node, !.h.pParent[r.node] = a]

RECURSIVE _assign(_, _, _, _)
RECURSIVE assignSide(_, _, _, _, _)

\* _assign(pDest->pRight, pSrc->pRight) and the parent link, or the same on the left
assignSide(side, st, a, s, fuel) ==
    IF st.nomem THEN st
    ELSE attach(side, a, _assign(st, child(st.h, side, a), child(st.h, side, s), fuel - 1))

_assign(st, d, s, fuel) ==
    IF fuel = 0 THEN [st |-> [st EXCEPT !.h = Fault(st.h, "loop")], node |-> d]
    ELSE IF s = NULL
    THEN [st |-> [st EXCEPT !.deleted = @ \o _clear(st.h, d, fuel)], node |-> NULL]
    ELSE [st |-> assignSide("L", assignSide("R",
                     assignNode(st, d, s, IF d = NULL THEN NextNodeIn(st.used, st.h.data[s]) ELSE d),
                     IF d = NULL THEN NextNodeIn(st.used, st.h.data[s]) ELSE d, s, fuel),
                     IF d = NULL THEN NextNodeIn(st.used, st.h.data[s]) ELSE d, s, fuel),
          node |-> IF d = NULL THEN NextNodeIn(st.used, st.h.data[s]) ELSE d]

\* BST& BST::operator=(const BST& rhs)
Assign ==
    LET o     == [name |-> "="]
        res   == _assign([h |-> Heap, used |-> allocated, deleted |-> <<>>, nomem |-> FALSE],
                         root, rhs.root, MaxNodes + 1)
        order == res.st.deleted
        D     == {order[i] : i \in 1..Len(order)} \ {HUNG}
    IN
    /\ status = "ok"
    /\ ~res.st.nomem
    /\ \/ /\ res.st.h.fault = "none" /\ HUNG \notin {order[i] : i \in 1..Len(order)}
             \* (a second delete of an object is let pass by the build)
          /\ SetHeap(Released(res.st.h, D))
          /\ root' = res.node
          /\ numElements' = rhs.numElements
          /\ allocated' = res.st.used \ D
          /\ freed' = freed \ D
          /\ ret' = [it |-> NULL, second |-> FALSE]
          /\ op' = o
          /\ workload' = "mixed"
          /\ UNCHANGED status
       \/ /\ res.st.h.fault # "none" \/ ~DeletesOnce(order)
             \* the recursion never ends, or an object is read and deleted after its delete
          /\ Crash(o)
    /\ UNCHANGED <<rhs, dataSecond, hist>>

\* a swap that leaves the element counts where they were
swapRoots(a, b) ==
    [this |-> [a EXCEPT !.root = b.root], rhs |-> [b EXCEPT !.root = a.root]]

\* std::swap(root, rhs.root); std::swap(numElements, rhs.numElements);
swap(a, b) == [this |-> b, rhs |-> a]

\* the BST the calls are made on, as a value
This == [root |-> root, numElements |-> numElements]

\* void BST::swap(BST& rhs)
Swap ==
    /\ status = "ok"
    /\ root' = swap(This, rhs).this.root
    /\ numElements' = swap(This, rhs).this.numElements
    /\ rhs' = swap(This, rhs).rhs
    /\ op' = [name |-> "swap"]
    /\ ret' = [it |-> NULL, second |-> FALSE]
    /\ workload' = "mixed"
    /\ UNCHANGED <<heapVars, dataSecond, status, hist>>

\* insert(t, false) on tree st
insertInto(st, t) ==
    LET a == NextNodeIn(st.used, t) IN
    IF st.root = NULL
    THEN [h |-> [NewNode(st.h, a, t) EXCEPT !.isRed[a] = FALSE], root |-> a,
          used |-> st.used \cup {a}]
    ELSE LET res == _insert(st.h, st.root, st.root, t, FALSE, a, MaxNodes + 1)
         IN  [h |-> res.h, root |-> rootOf(res.h, st.root, MaxNodes + 1),
              used |-> st.used \cup {a}]

\* for (auto& it : il) insert(it);
RECURSIVE insertList(_, _)
insertList(st, w) ==
    IF w = <<>> THEN st
    ELSE CHOOSE r \in {insertInto(s, w[Len(w)]) : s \in {insertList(st, SubSeq(w, 1, Len(w) - 1))}} : TRUE

\* the initializer lists the second tree is constructed from
Lists == UNION {[1..k -> Values] : k \in 1..MaxList}

\* BST rhs(il): the second tree is constructed from an initializer list
Other(il) ==
    LET st == insertList([h |-> Heap, root |-> NULL, used |-> allocated], il) IN
    /\ status = "ok"
    /\ rhs = [root |-> NULL, numElements |-> 0]
    /\ Cardinality(allocated) + Len(il) <= MaxNodes
    /\ st.h.fault = "none"
    /\ SetHeap(st.h)
    /\ allocated' = st.used
    /\ rhs' = [root |-> st.root, numElements |-> Len(il)]
    /\ op' = [name |-> "BST", il |-> il]
    /\ ret' = [it |-> NULL, second |-> FALSE]
    /\ workload' = "mixed"
    /\ UNCHANGED <<root, numElements, dataSecond, freed, status, hist>>

\* a BST that holds nothing: BST()
Empty == [root |-> NULL, numElements |-> 0]

\* BST(BST&& rhs) : root(rhs.root), numElements(rhs.numElements), then rhs is emptied
moveFrom(src) == [this |-> src, rhs |-> Empty]

\* BST rhs(std::move(*this)): the second tree is constructed from the first
MoveConstruct ==
    /\ status = "ok"
    /\ rhs = Empty /\ root # NULL
    /\ rhs' = moveFrom(This).this
    /\ root' = moveFrom(This).rhs.root
    /\ numElements' = moveFrom(This).rhs.numElements
    /\ op' = [name |-> "BST&&"]
    /\ ret' = [it |-> NULL, second |-> FALSE]
    /\ workload' = "mixed"
    /\ UNCHANGED <<heapVars, dataSecond, status, hist>>

\* *this = std::move(rhs): clear(); swap(rhs);
MoveAssign ==
    LET o     == [name |-> "=&&"]
        order == _clear(Heap, root, MaxNodes + 1)
        D     == {order[i] : i \in 1..Len(order)} \ {HUNG}
    IN
    /\ status = "ok"
    /\ rhs.root # NULL
    /\ \/ /\ HUNG \notin {order[i] : i \in 1..Len(order)}
             \* (a second delete of an object is let pass by the build)
          /\ SetHeap(Released(Heap, Lost))
          /\ root' = swap(Empty, rhs).this.root
          /\ numElements' = swap(Empty, rhs).this.numElements
          /\ rhs' = swap(Empty, rhs).rhs
          /\ allocated' = allocated \ D
          /\ freed' = freed \ D
          /\ ret' = [it |-> NULL, second |-> FALSE]
          /\ op' = o
          /\ workload' = "mixed"
          /\ UNCHANGED status
       \/ /\ ~DeletesOnce(order)
             \* the recursion never ends, or an object is read and deleted after its delete
          /\ Crash(o)
          /\ UNCHANGED rhs
    /\ UNCHANGED <<dataSecond, hist>>

NextInsert == \E t \in Values, keepUnique \in BOOLEAN : insertLogged(t, keepUnique)

\* insert-only workloads
SpecInsert == Init /\ [][NextInsert]_vars

NextClear ==
    \/ \E t \in Values, keepUnique \in BOOLEAN : insertLogged(t, keepUnique)
    \/ clearLogged

\* workloads of inserts and clears
SpecClear == Init /\ [][NextClear]_vars

\* the first tree is filled, the second constructed; swaps and assignments follow
NextTwo ==
    \/ \E t \in Values, keepUnique \in BOOLEAN : workload # "mixed" /\ insert(t, keepUnique)
    \/ \E il \in Lists : workload # "mixed" /\ Other(il)
    \/ Swap
    \/ Assign

\* workloads of inserts, swaps and copy assignments on two trees
SpecTwo == Init /\ [][NextTwo]_vars

\* the first tree is filled, the second constructed or move-constructed from the
\* first; move assignments follow
NextMove ==
    \/ \E t \in Values, keepUnique \in BOOLEAN : workload # "mixed" /\ insert(t, keepUnique)
    \/ \E il \in Lists : workload # "mixed" /\ Other(il)
    \/ MoveConstruct
    \/ MoveAssign

\* workloads of inserts and moves on two trees
SpecMove == Init /\ [][NextMove]_vars

\* std::pair<iterator, bool> set::insert(const T& t): bst.insert(t, true)
set_insert(t) == insertLogged(t, TRUE)

NextSet == \E t \in Values : set_insert(t)

\* workloads of inserts through the set adapter
SpecSet == Init /\ [][NextSet]_vars

\* pair<iterator, bool> map::insert(const Pairs& rhs): bst.insert(rhs), keepUnique
\* left at its default false; a pair compares by its key, data.first
map_insert(k, v) ==
    /\ insertCall(k, FALSE)
    /\ dataSecond' = IF status' = "ok" /\ ret'.second THEN [dataSecond EXCEPT ![NextNode(k)] = v]
                 ELSE dataSecond
    /\ hist' = Append(hist, <<k, v>>)
    /\ UNCHANGED rhs

\* V& map::operator[](const K& key): bst.insert(Pairs(key), true), and the reference
\* returned is returnValue.first.pNode->data.second
Subscript(key) ==
    /\ insertCall(key, TRUE)
    /\ dataSecond' = IF status' = "ok" /\ ret'.second THEN [dataSecond EXCEPT ![NextNode(key)] = Default]
                 ELSE dataSecond
    /\ UNCHANGED <<hist, rhs>>

\* V& map::at(const K& key): the node bst.find(Pairs(key)) returns, whose data.second
\* is returned; thrown: find returned end() and std::out_of_range is thrown
At(key) ==
    Observe([name |-> "at", key |-> key,
             thrown |-> find(Heap, root, key, MaxNodes + 1) = NULL],
            find(Heap, root, key, MaxNodes + 1), findPath(Heap, root, key, MaxNodes + 1))

NextMap ==
    \/ \E k \in Keys, v \in Mapped : map_insert(k, v)
    \/ \E k \in Values : Subscript(k)
    \/ \E k \in Values : At(k)

\* workloads of map::insert, map::operator[] and map::at on a map from map()
SpecMap == Init /\ [][NextMap]_vars

-----------------------------------------------------------------------------
(* insert with the work of balance() logged: which case the first call,    *)
(* made on the new node, takes, and where the recursion stops.             *)

\* the node _insert adds the new node under (NULL: t is found and nothing is added)
RECURSIVE leaf(_, _, _, _, _)
leaf(h, pNode, t, keepUnique, fuel) ==
    IF fuel = 0 THEN NULL
    ELSE IF keepUnique /\ t = h.data[pNode] THEN NULL
    ELSE IF t < h.data[pNode]
    THEN IF h.pLeft[pNode] # NULL THEN leaf(h, h.pLeft[pNode], t, keepUnique, fuel - 1)
         ELSE pNode
    ELSE IF h.pRight[pNode] # NULL THEN leaf(h, h.pRight[pNode], t, keepUnique, fuel - 1)
         ELSE pNode

\* pNode->addLeft(t) or pNode->addRight(t): the heap balance() is first called on
grown(h, l, a, t) ==
    IF t < h.data[l] THEN addLeftValue(h, l, a, t) ELSE addRightValue(h, l, a, t)

\* the case a call of balance() on node n takes, with the locals it reads
caseOf(h, n) ==
    LET p == h.pParent[n]
        g == IF p = NULL THEN NULL ELSE h.pParent[p]
        gg == IF g = NULL THEN NULL ELSE h.pParent[g]
        aunt == IF g = NULL THEN NULL
                ELSE IF p = h.pLeft[g] THEN h.pRight[g] ELSE h.pLeft[g]
        sib == IF p = NULL THEN NULL
               ELSE IF isLeftChild(h, n) THEN h.pRight[p] ELSE h.pLeft[p]
        case == IF p = NULL THEN "1"
                ELSE IF ~h.isRed[p] THEN "2"
                ELSE IF g = NULL THEN "null"
                ELSE IF aunt # NULL /\ h.isRed[aunt] THEN "3"
                ELSE IF h.isRed[g] THEN "4"
                ELSE IF isLeftChild(h, n) /\ isLeftChild(h, p) THEN "4a"
                ELSE IF isRightChild(h, n) /\ isRightChild(h, p) THEN "4b"
                ELSE IF isRightChild(h, n) /\ isLeftChild(h, p) THEN "4c"
                ELSE IF isLeftChild(h, n) /\ isRightChild(h, p) THEN "4d"
                ELSE "4"
    IN  [case |-> case, n |-> n, p |-> p, g |-> g, gg |-> gg, aunt |-> aunt, sib |-> sib, h |-> h]

\* the call of balance() the recursion of case 3 ends with, started on node n
RECURSIVE lastCall(_, _, _)
lastCall(h, n, fuel) ==
    IF fuel = 0 \/ caseOf(h, n).case # "3" THEN caseOf(h, n)
    ELSE lastCall([h EXCEPT !.isRed[caseOf(h, n).g] = TRUE], caseOf(h, n).g, fuel - 1)

\* insert; hist becomes the first and the last call of balance() the insert made
insertTraced(t, keepUnique) ==
    /\ insertCall(t, keepUnique)
    /\ hist' = IF root # NULL /\ status' = "ok" /\ ret'.second
               THEN LET l == leaf(Heap, root, t, keepUnique, MaxNodes + 1)
                    IN  <<caseOf(grown(Heap, l, NextNode(t), t), NextNode(t)),
                          lastCall(grown(Heap, l, NextNode(t), t), NextNode(t), MaxNodes + 1)>>
               ELSE <<>>
    /\ UNCHANGED <<rhs, dataSecond>>

-----------------------------------------------------------------------------
(* balance() as a function of the nodes it reads and writes.  A fragment   *)
(* is the neighbourhood case 4 finds around the node n it is called on:    *)
(* the red n and its red parent p, the black grandparent g, and of the     *)
(* great-grandparent gg, the sibling, the aunt and the two children of n   *)
(* (all black) those that exist.  The nodes further away, which case 4     *)
(* neither reads nor writes, are left out.  cfg = [case, opt, side]: which *)
(* of 4a..4d, which of the optional nodes exist, which child of gg g is.   *)

Roles == <<"g", "p", "n", "gg", "sib", "aunt", "nL", "nR">>

Present(cfg) == {"g", "p", "n"} \cup cfg.opt

\* the place of role r in sequence w (0: not there)
Place(w, r) == IF \E i \in 1..Len(w) : w[i] = r THEN CHOOSE i \in 1..Len(w) : w[i] = r ELSE 0

\* the node id of role r: the roles that exist are numbered in the order of Roles
Id(cfg, r) ==
    IF r \notin Present(cfg) THEN NULL
    ELSE Cardinality({i \in 1..Place(Roles, r) : Roles[i] \in Present(cfg)})

\* the roles in in-order sequence
Sorted(cfg) ==
    LET mid == CASE cfg.case = "4a" -> <<"nL", "n", "nR", "p", "sib", "g", "aunt">>
                 [] cfg.case = "4b" -> <<"aunt", "g", "sib", "p", "nL", "n", "nR">>
                 [] cfg.case = "4c" -> <<"sib", "p", "nL", "n", "nR", "g", "aunt">>
                 [] cfg.case = "4d" -> <<"aunt", "g", "nL", "n", "nR", "p", "sib">>
    IN  IF cfg.side = "R" THEN <<"gg">> \o mid ELSE mid \o <<"gg">>

\* the value of role r: ten times its rank among the roles that exist
Value(cfg, r) ==
    10 * Cardinality({i \in 1..Place(Sorted(cfg), r) : Sorted(cfg)[i] \in Present(cfg)})

ParentRole(r) ==
    CASE r = "g" -> "gg" [] r \in {"p", "aunt"} -> "g" [] r \in {"n", "sib"} -> "p"
      [] r \in {"nL", "nR"} -> "n" [] OTHER -> "none"

LeftRole(cfg, r) ==
    CASE r = "gg" -> IF cfg.side = "L" THEN "g" ELSE "none"
      [] r = "g"  -> IF cfg.case \in {"4a", "4c"} THEN "p" ELSE "aunt"
      [] r = "p"  -> IF cfg.case \in {"4a", "4d"} THEN "n" ELSE "sib"
      [] r = "n"  -> "nL"
      [] OTHER    -> "none"

RightRole(cfg, r) ==
    CASE r = "gg" -> IF cfg.side = "R" THEN "g" ELSE "none"
      [] r = "g"  -> IF cfg.case \in {"4a", "4c"} THEN "aunt" ELSE "p"
      [] r = "p"  -> IF cfg.case \in {"4a", "4d"} THEN "sib" ELSE "n"
      [] r = "n"  -> "nR"
      [] OTHER    -> "none"

\* the role of node i (i is a node of the fragment)
RoleOf(cfg, i) == CHOOSE r \in Present(cfg) : Id(cfg, r) = i

Configs ==
    {cfg \in [case : {"4a", "4b", "4c", "4d"},
              opt : SUBSET {"gg", "sib", "aunt", "nL", "nR"}, side : {"L", "R"}] :
        /\ Cardinality(cfg.opt) <= MaxNodes - 4
        /\ "gg" \notin cfg.opt => cfg.side = "L"}

\* the heap that holds the fragment cfg
Fragment(cfg) ==
    LET in(i) == i <= Cardinality(Present(cfg)) IN
    [data    |-> [i \in Nodes |-> IF in(i) THEN Value(cfg, RoleOf(cfg, i)) ELSE 0],
     pLeft   |-> [i \in Nodes |-> IF in(i) THEN Id(cfg, LeftRole(cfg, RoleOf(cfg, i))) ELSE NULL],
     pRight  |-> [i \in Nodes |-> IF in(i) THEN Id(cfg, RightRole(cfg, RoleOf(cfg, i))) ELSE NULL],
     pParent |-> [i \in Nodes |-> IF in(i) THEN Id(cfg, ParentRole(RoleOf(cfg, i))) ELSE NULL],
     isRed   |-> [i \in Nodes |-> IF in(i) THEN RoleOf(cfg, i) \in {"p", "n"} ELSE TRUE],
     fault   |-> "none"]

InitFragment ==
    \E cfg \in Configs :
        /\ data = Fragment(cfg).data
        /\ pLeft = Fragment(cfg).pLeft
        /\ pRight = Fragment(cfg).pRight
        /\ pParent = Fragment(cfg).pParent
        /\ isRed = Fragment(cfg).isRed
        /\ allocated = 1..Cardinality(Present(cfg))
        /\ freed = {}
        /\ root = IF "gg" \in cfg.opt THEN Id(cfg, "gg") ELSE Id(cfg, "g")
        /\ numElements = Cardinality(Present(cfg))
        /\ rhs = [root |-> NULL, numElements |-> 0]
        /\ dataSecond = [n \in Nodes |-> Default]
        /\ op = [name |-> "fragment", n |-> Id(cfg, "n")]
        /\ ret = [it |-> NULL, second |-> FALSE]
        /\ status = "ok"
        /\ hist = <<>>
        /\ workload = "mixed"

\* op.n->balance(), on a fragment; hist becomes the first and the last call made
Balance ==
    /\ op.name = "fragment" /\ status = "ok"
    /\ SetHeap(balance(Heap, op.n, MaxNodes + 1))
    /\ status' = IF balance(Heap, op.n, MaxNodes + 1).fault = "none" THEN "ok" ELSE "crashed"
    /\ hist' = <<caseOf(Heap, op.n), lastCall(Heap, op.n, MaxNodes + 1)>>
    /\ op' = [name |-> "balance", n |-> op.n]
    /\ UNCHANGED <<allocated, freed, root, numElements, rhs, dataSecond, ret, workload>>

\* balance() on the fragments of case 4
SpecRotate == InitFragment /\ [][Balance]_vars

-----------------------------------------------------------------------------
(* The red-aunt case on its own.  The piece of the tree it works on: the   *)
(* red node n, its red parent p and red aunt, the black grandparent g, and *)
(* above g what the recursive call g->balance() finds: nothing (g is the   *)
(* root), a black parent P, or a red parent P under a black G with g's     *)
(* aunt A (absent, black or red) and G's parent X (absent or black); S is  *)
(* the sibling of g.                                                       *)

Slot == [n |-> 1, p |-> 2, aunt |-> 3, g |-> 4, P |-> 5, G |-> 6, X |-> 7, S |-> 8, A |-> 9]

OtherSide(side) == IF side = "L" THEN "R" ELSE "L"

Pieces ==
    {c \in [pSide : {"L", "R"}, nSide : {"L", "R"}, up : {"root", "black", "red"},
            gSide : {"L", "R"}, S : BOOLEAN, PSide : {"L", "R"},
            A : {"none", "black", "red"}, X : {"none", "L", "R"}] :
        /\ c.up = "root" => c.gSide = "L" /\ ~c.S
        /\ c.up # "red" => c.PSide = "L" /\ c.A = "none" /\ c.X = "none"}

\* the links of piece c: <<parent, side, child>>
Edges(c) ==
    {<<Slot.g, c.pSide, Slot.p>>, <<Slot.g, OtherSide(c.pSide), Slot.aunt>>,
     <<Slot.p, c.nSide, Slot.n>>}
    \cup (IF c.up # "root" THEN {<<Slot.P, c.gSide, Slot.g>>} ELSE {})
    \cup (IF c.S THEN {<<Slot.P, OtherSide(c.gSide), Slot.S>>} ELSE {})
    \cup (IF c.up = "red" THEN {<<Slot.G, c.PSide, Slot.P>>} ELSE {})
    \cup (IF c.A # "none" THEN {<<Slot.G, OtherSide(c.PSide), Slot.A>>} ELSE {})
    \cup (IF c.X # "none" THEN {<<Slot.X, c.X, Slot.G>>} ELSE {})

Members(c) == {e[1] : e \in Edges(c)} \cup {e[3] : e \in Edges(c)}

ChildAt(c, i, side) ==
    IF \E e \in Edges(c) : e[1] = i /\ e[2] = side
    THEN (CHOOSE e \in Edges(c) : e[1] = i /\ e[2] = side)[3] ELSE NULL

ParentAt(c, i) ==
    IF \E e \in Edges(c) : e[3] = i THEN (CHOOSE e \in Edges(c) : e[3] = i)[1] ELSE NULL

TopOf(c) == CHOOSE i \in Members(c) : ParentAt(c, i) = NULL

\* the nodes under i in in-order sequence
RECURSIVE Flat(_, _, _)
Flat(c, i, fuel) ==
    IF i = NULL \/ fuel = 0 THEN <<>>
    ELSE Flat(c, ChildAt(c, i, "L"), fuel - 1) \o <<i>> \o Flat(c, ChildAt(c, i, "R"), fuel - 1)

RedIn(c) ==
    {Slot.n, Slot.p, Slot.aunt}
    \cup (IF c.up = "red" THEN {Slot.P} ELSE {})
    \cup (IF c.A = "red" THEN {Slot.A} ELSE {})

\* the heap that holds piece c
Piece(c) ==
    [data    |-> [i \in 1..MaxFragment |->
                     IF i \in Members(c) THEN 10 * Place(Flat(c, TopOf(c), MaxFragment), i) ELSE 0],
     pLeft   |-> [i \in 1..MaxFragment |-> ChildAt(c, i, "L")],
     pRight  |-> [i \in 1..MaxFragment |-> ChildAt(c, i, "R")],
     pParent |-> [i \in 1..MaxFragment |-> ParentAt(c, i)],
     isRed   |-> [i \in 1..MaxFragment |-> i \in RedIn(c) \/ i \notin Members(c)],
     fault   |-> "none"]

InitPiece ==
    \E c \in Pieces :
        /\ Members(c) \subseteq 1..MaxFragment
        /\ data = Piece(c).data
        /\ pLeft = Piece(c).pLeft
        /\ pRight = Piece(c).pRight
        /\ pParent = Piece(c).pParent
        /\ isRed = Piece(c).isRed
        /\ allocated = Members(c)
        /\ freed = {}
        /\ root = TopOf(c)
        /\ numElements = Cardinality(Members(c))
        /\ rhs = [root |-> NULL, numElements |-> 0]
        /\ dataSecond = [i \in 1..MaxFragment |-> Default]
        /\ op = [name |-> "fragment", n |-> Slot.n]
        /\ ret = [it |-> NULL, second |-> FALSE]
        /\ status = "ok"
        /\ hist = <<>>
        /\ workload = "mixed"

\* balance() on the pieces of the red-aunt case
SpecRecolor == InitPiece /\ [][Balance]_vars

NextBalance == \E t \in Values, keepUnique \in BOOLEAN : insertTraced(t, keepUnique)

\* insert-only workloads, the calls of balance() logged
SpecBalance == Init /\ [][NextBalance]_vars

NextMulti == \E t \in Values : insertLogged(t, FALSE)

\* workloads of insert(t, false) only
SpecMulti == Init /\ [][NextMulti]_vars

NextErase ==
    \/ \E t \in Values, keepUnique \in BOOLEAN : insert(t, keepUnique)
    \/ \E t \in Values : Find(t)
    \/ Begin
    \/ Erase
    \/ EraseNext

\* inserts, then erase and erase again on the iterator it returned
SpecErase == Init /\ [][NextErase]_vars

Next ==
    \/ \E t \in Values, keepUnique \in BOOLEAN : insert(t, keepUnique)
    \/ \E t \in Values : Find(t)
    \/ Begin
    \/ End
    \/ Increment
    \/ Decrement
    \/ Erase

Spec == Init /\ [][Next]_vars

-----------------------------------------------------------------------------
(* What the properties below speak of.                                     *)

\* the nodes reached from n through child links
RECURSIVE Reach(_, _, _)
Reach(h, n, fuel) ==
    IF n = NULL \/ fuel = 0 THEN {}
    ELSE {n} \cup Reach(h, h.pLeft[n], fuel - 1) \cup Reach(h, h.pRight[n], fuel - 1)

TreeNodes == Reach(Heap, root, MaxNodes + 1)

\* the values met from iterator n on, applying ++ until end(); HUNG closes a walk that
\* has not reached end() after `fuel` elements
RECURSIVE Walk(_, _, _)
Walk(h, n, fuel) ==
    IF n = NULL THEN <<>>
    ELSE IF n = HUNG \/ fuel = 0 THEN <<HUNG>>
    ELSE <<h.data[n]>> \o Walk(h, increment(h, n), fuel - 1)

\* for (it = begin(); it != end(); ++it) yield *it
InOrder == Walk(Heap, begin(Heap, root), MaxNodes + 1)

StrictlyIncreasing(w) == \A i \in 1..(Len(w) - 1) : w[i] < w[i + 1]

Range(w) == {w[i] : i \in 1..Len(w)}

\* the black-node counts of the paths from n down to a missing child (-1: no such count)
RECURSIVE BlackCounts(_, _, _)
BlackCounts(h, n, fuel) ==
    IF n = NULL THEN {0}
    ELSE IF fuel = 0 THEN {-1}
    ELSE {c + (IF h.isRed[n] THEN 0 ELSE 1) :
            c \in BlackCounts(h, h.pLeft[n], fuel - 1) \cup BlackCounts(h, h.pRight[n], fuel - 1)}

RootIsBlack == root # NULL => ~isRed[root]

NoRedRed ==
    \A n \in TreeNodes : isRed[n] =>
        /\ pLeft[n] # NULL => ~isRed[pLeft[n]]
        /\ pRight[n] # NULL => ~isRed[pRight[n]]

EqualBlackCounts ==
    LET c == BlackCounts(Heap, root, MaxNodes + 1) IN Cardinality(c) = 1 /\ -1 \notin c

\* BST ordering as verifyBTree asserts it: nothing greater on the left, nothing less on the right
BSTOrdered ==
    \A n \in TreeNodes :
        /\ \A m \in Reach(Heap, pLeft[n], MaxNodes + 1) : ~(data[n] < data[m])
        /\ \A m \in Reach(Heap, pRight[n], MaxNodes + 1) : ~(data[m] < data[n])

-----------------------------------------------------------------------------
(* C1 -- after any sequence of insert(value, true) calls on an empty tree, *)
(* the walk from begin() with ++ reaches end(), its values are strictly    *)
(* increasing, and they are exactly the distinct values inserted.          *)
C1_InOrderOfUniqueInserts ==
    (workload = "unique" /\ status = "ok") =>
        /\ HUNG \notin Range(InOrder)
        /\ StrictlyIncreasing(InOrder)
        /\ Range(InOrder) = Range(hist)

(* C2 -- after any sequence of insert calls on an empty tree: the root is  *)
(* black, no red node has a red child, and every path from the root to a   *)
(* missing child holds the same number of black nodes.                     *)
C2_RedBlackAfterInserts ==
    (workload \in {"unique", "inserts"} /\ status = "ok") =>
        RootIsBlack /\ NoRedRed /\ EqualBlackCounts

(* C3 -- immediately after insert(v), find(v) returns a non-end iterator   *)
(* whose value is v.                                                       *)
C3_FindAfterInsert ==
    (op.name = "insert" /\ status = "ok") =>
        LET f == find(Heap, root, op.t, MaxNodes + 1)
        IN  f \in Nodes /\ data[f] = op.t

(* C4 -- on a tree built by unique inserts, erase(find(v)) for a stored v  *)
(* completes, lowers size() by exactly 1, and find(v) then returns end().  *)
C4_EraseFound ==
    [][(workload = "unique" /\ status = "ok" /\ op.name = "find" /\ ret.it # NULL
            /\ op'.name = "erase")
        => (status' = "ok" /\ numElements' = numElements - 1
            /\ find(Heap', root', op.t, MaxNodes + 1) = NULL)]_vars

(* C5 -- on a non-empty tree, ++ applied to the iterator at the largest    *)
(* element (the rightmost node, the root included) yields end().           *)
C5_IncrementAtLargest ==
    [][(status = "ok" /\ root # NULL /\ ret.it = rightmost(Heap, root, MaxNodes + 1)
            /\ op'.name = "++")
        => (status' = "ok" /\ ret'.it = NULL)]_vars

\* the values from iterator n up to the one at `target`, applying ++ (HUNG: never there)
RECURSIVE WalkUp(_, _, _, _)
WalkUp(h, n, target, fuel) ==
    IF n = NULL \/ n = HUNG \/ fuel = 0 THEN <<HUNG>>
    ELSE IF n = target THEN <<h.data[n]>>
    ELSE <<h.data[n]>> \o WalkUp(h, increment(h, n), target, fuel - 1)

\* the values from iterator n down to the one at `target`, applying -- (HUNG: never there)
RECURSIVE WalkDown(_, _, _, _)
WalkDown(h, n, target, fuel) ==
    IF n = NULL \/ n = HUNG \/ fuel = 0 THEN <<HUNG>>
    ELSE IF n = target THEN <<h.data[n]>>
    ELSE <<h.data[n]>> \o WalkDown(h, decrement(h, n), target, fuel - 1)

Reverse(w) == [i \in 1..Len(w) |-> w[Len(w) + 1 - i]]

Smallest == begin(Heap, root)
Largest  == rightmost(Heap, root, MaxNodes + 1)

(* C6 -- on a tree built by inserts, the values met going with -- from the *)
(* largest element down to the smallest are the reverse of those met going *)
(* with ++ from begin() up to the largest.                                 *)
C6_BackwardIsReverseOfForward ==
    (workload \in {"unique", "inserts"} /\ status = "ok" /\ root # NULL) =>
        LET up   == WalkUp(Heap, Smallest, Largest, MaxNodes + 1)
            down == WalkDown(Heap, Largest, Smallest, MaxNodes + 1)
        IN  HUNG \notin Range(up) /\ HUNG \notin Range(down) /\ down = Reverse(up)

\* the tree is 20 at the root with 10 on its left and 30 on its right, and nothing else
Is_10_20_30 ==
    /\ root # NULL /\ data[root] = 20 /\ pParent[root] = NULL
    /\ pLeft[root] # NULL /\ data[pLeft[root]] = 10
    /\ pRight[root] # NULL /\ data[pRight[root]] = 30
    /\ Cardinality(TreeNodes) = 3

(* C7 -- as claimed: after inserting 10, 20, 30 in that order into an      *)
(* empty tree the root holds 20 and is black, its children hold 10 and 30, *)
(* and both children are black.                                            *)
C7_Original ==
    (hist = <<10, 20, 30>> /\ status = "ok") =>
        Is_10_20_30 /\ ~isRed[root] /\ ~isRed[pLeft[root]] /\ ~isRed[pRight[root]]

(* C7 -- as amended: after inserting 10, 20, 30 in that order into an      *)
(* empty tree the root holds 20 and is black, its children hold 10 and 30, *)
(* and both children are red.                                              *)
C7_Amended ==
    (hist = <<10, 20, 30>> /\ status = "ok") =>
        Is_10_20_30 /\ ~isRed[root] /\ isRed[pLeft[root]] /\ isRed[pRight[root]]

C7_Witness ==
    hist = <<10, 20, 30>> /\ status = "ok" /\ op.name = "insert" /\ op.t = 30 /\ ret.second

(* C8 -- erase(end()) returns end() and leaves the root, every node's      *)
(* links, color and value, and size() as they were, on any tree.           *)
C8_EraseEnd ==
    [][(ret.it = NULL /\ op'.name = "erase")
        => (ret'.it = NULL /\ status' = status /\ UNCHANGED treeVars)]_vars

\* erase(end()) was called on a tree that holds elements
C8_Witness ==
    op.name = "erase" /\ freed = {} /\ status = "ok" /\ numElements >= 2 /\ ret.it = NULL

(* C9 -- on a tree with BST ordering, find(v) returns end() exactly when   *)
(* no node of the tree holds v (and else an iterator to a node holding v); *)
(* find changes nothing of the tree.                                       *)
C9_Find ==
    [][(op'.name = "find" /\ status' = "ok")
        => /\ UNCHANGED treeVars
           /\ BSTOrdered => (ret'.it = NULL <=> op'.t \notin {data[n] : n \in TreeNodes})
           /\ ret'.it # NULL => data[ret'.it] = op'.t]_vars

\* find(v) returned end() on an ordered tree of three or more elements, none of them v
C9_Witness ==
    /\ op.name = "find" /\ status = "ok" /\ ret.it = NULL
    /\ BSTOrdered /\ Cardinality(TreeNodes) >= 3 /\ freed = {}
    /\ \E n \in TreeNodes : data[n] < op.t
    /\ \E n \in TreeNodes : data[n] > op.t

(* C10 -- insert(v, true) on a tree that holds v returns false with an     *)
(* iterator to the node holding v, and changes neither size() nor any      *)
(* node's value, color or links.                                           *)
C10_UniqueInsertOfStoredValue ==
    [][(status = "ok" /\ op'.name = "insert" /\ op'.keepUnique
            /\ op'.t \in {data[n] : n \in TreeNodes})
        => (status' = "ok" /\ ~ret'.second /\ ret'.it \in TreeNodes
            /\ data[ret'.it] = op'.t /\ UNCHANGED treeVars)]_vars

(* C11 -- an insert call that returns raises size() by 1 when it returns   *)
(* inserted = true and leaves it when it returns false; with keepUnique =  *)
(* false it returns true; on an empty tree the new node becomes the black  *)
(* root, without parent or children, and size() is 1.                      *)
C11_InsertCount ==
    [][(op'.name = "insert" /\ status' = "ok")
        => /\ numElements' = numElements + (IF ret'.second THEN 1 ELSE 0)
           /\ ~op'.keepUnique => ret'.second
           /\ root = NULL =>
                 /\ ret'.second /\ root' = ret'.it /\ root' # NULL
                 /\ data'[root'] = op'.t /\ ~isRed'[root']
                 /\ pParent'[root'] = NULL /\ pLeft'[root'] = NULL /\ pRight'[root'] = NULL
                 /\ numElements' = 1]_vars

\* insert(v, false) of a stored value returned true, and the size counts both nodes
C11_Witness ==
    /\ op.name = "insert" /\ ~op.keepUnique /\ ret.second /\ status = "ok"
    /\ Duplicates = 1 /\ numElements = Cardinality(allocated) /\ numElements >= 2

(* C12 -- begin() returns the node reached from the root by left links as *)
(* far as they go, which holds the smallest value when the tree has BST    *)
(* ordering; it returns end() exactly when the tree is empty.              *)
C12_Begin ==
    [][(op'.name = "begin" /\ status' = "ok")
        => /\ ret'.it = NULL <=> root = NULL
           /\ ret'.it # NULL =>
                 /\ ret'.it \in leftSpine(Heap, root, MaxNodes + 1)
                 /\ pLeft[ret'.it] = NULL
                 /\ BSTOrdered => \A n \in TreeNodes : data[ret'.it] <= data[n]]_vars

\* begin() returned a node two left links below the root of an ordered tree
C12_Witness ==
    /\ op.name = "begin" /\ status = "ok" /\ freed = {} /\ BSTOrdered
    /\ ret.it # NULL /\ pParent[ret.it] # NULL /\ pParent[ret.it] # root
    /\ pLeft[pParent[ret.it]] = ret.it

\* the links of the tree agree: the root has no parent, and each child of a node
\* of the tree has that node as its parent and is its child once
LinksAgree ==
    /\ root # NULL => pParent[root] = NULL
    /\ \A n \in TreeNodes :
          /\ pLeft[n] # NULL => pParent[pLeft[n]] = n
          /\ pRight[n] # NULL => pParent[pRight[n]] = n /\ pRight[n] # pLeft[n]

\* the leftmost node of the right subtree of n
SuccessorBelow(n) == leftmost(Heap, pRight[n], MaxNodes + 1)

(* C13 -- erase of a node n with two children puts s, the leftmost node of *)
(* its right subtree, in the place of n: s gets the parent and the left    *)
(* child of n and what is left of the right subtree of n, with the back    *)
(* links; the former right child of s takes the old slot of s; the root    *)
(* becomes s when n was the root; BST ordering is kept.                    *)
C13_EraseTwoChildren ==
    [][(op'.name = "erase" /\ status' = "ok" /\ ret.it # NULL
            /\ pLeft[ret.it] # NULL /\ pRight[ret.it] # NULL)
        => LET n == ret.it
               s == SuccessorBelow(n)
               direct == pRight[n] = s
           IN  /\ s \in Nodes
               /\ pParent'[s] = pParent[n]
               /\ pLeft'[s] = pLeft[n] /\ pParent'[pLeft[n]] = s
               /\ pRight'[s] = IF direct THEN pRight[s] ELSE pRight[n]
               /\ pRight'[s] # NULL => pParent'[pRight'[s]] = s
               /\ ~direct => /\ pLeft'[pParent[s]] = pRight[s]
                             /\ pRight[s] # NULL => pParent'[pRight[s]] = pParent[s]
               /\ IF pParent[n] = NULL THEN root' = s
                  ELSE /\ root' = root
                       /\ IF pLeft[pParent[n]] = n THEN pLeft'[pParent[n]] = s
                          ELSE pRight'[pParent[n]] = s
               /\ BSTOrdered => BSTOrdered']_vars

\* the tree under n as values: value, color, value of the parent (0: none), left, right
RECURSIVE Shape(_, _, _)
Shape(h, n, fuel) ==
    IF n = NULL THEN <<>>
    ELSE IF fuel = 0 THEN <<HUNG>>
    ELSE <<h.data[n], h.isRed[n],
           IF h.pParent[n] = NULL THEN 0 ELSE h.data[h.pParent[n]],
           Shape(h, h.pLeft[n], fuel - 1), Shape(h, h.pRight[n], fuel - 1)>>

\* a tree as BST() leaves it, in a heap of its own
FreshTree ==
    [h |-> [data |-> [n \in Nodes |-> 0], pLeft |-> [n \in Nodes |-> NULL],
            pRight |-> [n \in Nodes |-> NULL], pParent |-> [n \in Nodes |-> NULL],
            isRed |-> [n \in Nodes |-> TRUE], fault |-> "none"],
     root |-> NULL, used |-> {}]

\* the tree that the inserts of w, in order, build from a tree as BST() leaves it
RECURSIVE Build(_)
Build(w) ==
    IF w = <<>> THEN FreshTree
    ELSE CHOOSE r \in {insertInto(st, w[Len(w)]) : st \in {Build(SubSeq(w, 1, Len(w) - 1))}} : TRUE

\* the tree is the one the inserts since the last clear() build from a new tree
AsOnNewTree ==
    /\ Shape(Heap, root, MaxNodes + 1) = Shape(Build(hist).h, Build(hist).root, MaxNodes + 1)
    /\ numElements = Len(hist)

(* C14 -- clear() on any tree completes and leaves root null, size() 0,    *)
(* empty() true and begin() equal to end(); the inserts that follow build  *)
(* the tree, and the size, that they build from a newly constructed tree.  *)
C14_Clear ==
    /\ [][op'.name = "clear"
            => (status' = "ok" /\ root' = NULL /\ numElements' = 0
                /\ begin(Heap', root') = NULL)]_vars
    /\ [](status = "ok" => AsOnNewTree)

(* C15 -- a.swap(b) exchanges the two trees' root and element count and     *)
(* nothing else: a has b's former nodes and size, b has a's, no node's     *)
(* value, color or links change, and a second swap restores both trees.    *)
C15_Swap ==
    [][op'.name = "swap"
        => /\ status' = "ok"
           /\ root' = rhs.root /\ numElements' = rhs.numElements
           /\ rhs' = This
           /\ Heap' = Heap /\ allocated' = allocated /\ freed' = freed
           /\ swap(This', rhs') = [this |-> This, rhs |-> rhs]]_vars

C15_Witness ==
    /\ op.name = "swap" /\ status = "ok"
    /\ root # NULL /\ rhs.root # NULL
    /\ numElements # rhs.numElements
    /\ numElements = Cardinality(Linked(Heap, {root}, MaxNodes))

\* the tree under n by position: value, color, left, right
RECURSIVE Positions(_, _, _)
Positions(h, n, fuel) ==
    IF n = NULL THEN <<>>
    ELSE IF fuel = 0 THEN <<HUNG>>
    ELSE <<h.data[n], h.isRed[n], Positions(h, h.pLeft[n], fuel - 1),
           Positions(h, h.pRight[n], fuel - 1)>>

\* every child under r names its actual parent
ParentsRight(h, r) ==
    \A n \in Reach(h, r, MaxNodes + 1) :
        /\ h.pLeft[n] # NULL => h.pParent[h.pLeft[n]] = n
        /\ h.pRight[n] # NULL => h.pParent[h.pRight[n]] = n

(* C16 -- after dest = source, for any prior contents of dest, dest has    *)
(* the shape, per-position values and colors of source, every child's      *)
(* parent link in dest names its actual parent, dest.size() equals         *)
(* source.size(), source is unchanged, and the two trees share no node.    *)
C16_Assign ==
    [][op'.name = "="
        => \E before \in {Heap}, after \in {Heap'} :
           /\ status' = "ok"
           /\ Positions(after, root', MaxNodes + 1) = Positions(before, rhs.root, MaxNodes + 1)
           /\ ParentsRight(after, root')
           /\ numElements' = rhs.numElements
           /\ rhs' = rhs
           /\ \A n \in Reach(before, rhs.root, MaxNodes + 1) :
                  /\ after.data[n] = before.data[n] /\ after.isRed[n] = before.isRed[n]
                  /\ after.pLeft[n] = before.pLeft[n] /\ after.pRight[n] = before.pRight[n]
                  /\ after.pParent[n] = before.pParent[n]
           /\ Reach(after, root', MaxNodes + 1) \cap Reach(after, rhs.root, MaxNodes + 1) = {}]_vars

(* C17 -- insert never destroys an existing node and never changes the     *)
(* value stored in an existing node: an iterator obtained before an insert *)
(* dereferences to the same value after it, whatever recoloring or         *)
(* rotation the insert performed.                                          *)
C17_InsertKeepsNodes ==
    [][op'.name = "insert"
        => /\ allocated \subseteq allocated'
           /\ freed' = freed
           /\ \A n \in allocated : data'[n] = data[n]]_vars

C17_Witness ==
    /\ op.name = "insert" /\ status = "ok" /\ ret.second
    /\ freed = {} /\ Duplicates = 0
    /\ \E n \in TreeNodes : /\ data[n] = op.t
                            /\ pLeft[n] # NULL /\ pRight[n] # NULL
                            /\ isRed[pLeft[n]] /\ ~isRed[n]

\* no value comes twice in w
NoRepeat(w) == \A i, j \in 1..Len(w) : i # j => w[i] # w[j]

(* C18 -- the set adapter's insert(value) always inserts with              *)
(* keepUnique = true: after any sequence of set inserts iteration never    *)
(* yields the same value twice, and inserting a value already present      *)
(* returns false and leaves size() unchanged.                              *)
C18_SetInsert ==
    /\ [][op'.name = "insert"
            => /\ op'.keepUnique
               /\ op'.t \in Range(hist) => (status' = "ok" /\ ~ret'.second
                                            /\ numElements' = numElements)]_vars
    /\ [](status = "ok" => (HUNG \notin Range(InOrder) /\ NoRepeat(InOrder)))

(* C19 -- with the map adapter's insert, inserting (key 1, "a") and then   *)
(* (key 1, "b") makes the second insert report inserted = false, leaves    *)
(* size at 1, and leaves the value stored for key 1 equal to "a".  (Key 1  *)
(* is the first key of the model, 10.)                                     *)
C19_MapInsertTwice ==
    (/\ hist = << <<10, "a">>, <<10, "b">> >>
     /\ op.name = "insert" /\ ~op.keepUnique
     /\ \A n \in allocated : data[n] = 10)
        => /\ status = "ok"
           /\ ~ret.second
           /\ numElements = 1
           /\ find(Heap, root, 10, MaxNodes + 1) \in Nodes
           /\ dataSecond[find(Heap, root, 10, MaxNodes + 1)] = "a"

(* C20 -- m[k], for any map contents: when k is absent it inserts a pair   *)
(* with key k and a default value and size grows by exactly 1, when k is   *)
(* present it inserts nothing; in both cases the reference returned is to  *)
(* the value stored in the node whose key equals k.                        *)
C20_Subscript ==
    [][(op'.name = "insert" /\ op'.keepUnique)
        => /\ status' = "ok"
           /\ IF op'.t \in {data[n] : n \in TreeNodes}
              THEN UNCHANGED <<treeVars, dataSecond>>
              ELSE /\ numElements' = numElements + 1
                   /\ allocated' = allocated \cup {NextNode(op'.t)}
                   /\ data'[NextNode(op'.t)] = op'.t
                   /\ dataSecond'[NextNode(op'.t)] = Default
           /\ ret'.it \in Nodes
           /\ data'[ret'.it] = op'.t]_vars

(* C21 -- at(k) fails with out_of_range when no pair with key k is stored, *)
(* leaving the map unchanged (no insertion), and returns the value stored  *)
(* for k when it is present.                                               *)
C21_At ==
    [][op'.name = "at"
        => /\ status' = "ok"
           /\ UNCHANGED <<treeVars, dataSecond>>
           /\ op'.thrown <=> op'.key \notin {data[n] : n \in TreeNodes}
           /\ ~op'.thrown => (ret'.it \in TreeNodes /\ data[ret'.it] = op'.key)]_vars

\* the call that made this state ended balance() with a rotation
Rotated ==
    /\ op.name \in {"insert", "balance"} /\ status = "ok" /\ hist # <<>>
    /\ hist[2].case \in {"4a", "4b", "4c", "4d"}

\* the node a rotation puts on top: the parent (4a, 4b) or the new node (4c, 4d)
Top == IF hist[2].case \in {"4a", "4b"} THEN hist[2].p ELSE hist[2].n

(* C22 -- after every rotation of the balancer the subtree's new top is    *)
(* stored in exactly the child slot of the former great-grandparent that   *)
(* held the grandparent, the great-grandparent's other slot is unchanged,  *)
(* and the top's parent link names the great-grandparent; with no          *)
(* great-grandparent the top has a null parent and becomes the root.       *)
C22_RotationReattach ==
    Rotated =>
        LET c == hist[2] IN
        IF c.gg # NULL
        THEN /\ c.h.pLeft[c.gg] = c.g
                    => (pLeft[c.gg] = Top /\ pRight[c.gg] = c.h.pRight[c.gg])
             /\ c.h.pRight[c.gg] = c.g
                    => (pRight[c.gg] = Top /\ pLeft[c.gg] = c.h.pLeft[c.gg])
             /\ pParent[Top] = c.gg
        ELSE pParent[Top] = NULL /\ root = Top

OrderedUnder(n) ==
    \A m \in Reach(Heap, n, MaxNodes + 1) :
        /\ \A l \in Reach(Heap, pLeft[m], MaxNodes + 1) : data[l] <= data[m]
        /\ \A r \in Reach(Heap, pRight[m], MaxNodes + 1) : data[r] >= data[m]

(* C24 -- in the zig-zag cases the balancer makes the new node the subtree *)
(* top with the parent and grandparent as its two children, hands the      *)
(* node's former left and right subtrees to the parent and grandparent so  *)
(* that BST ordering is preserved, colors the grandparent red and the node *)
(* black, and leaves no cycle in the parent links of the node, parent and  *)
(* grandparent.                                                            *)
C24_ZigZagRotation ==
    LET c  == hist[2]
        nL == c.h.pLeft[c.n]
        nR == c.h.pRight[c.n]
    IN
    /\ (Rotated /\ c.case = "4c")
          => /\ pLeft[c.n] = c.p /\ pParent[c.p] = c.n
             /\ pRight[c.n] = c.g /\ pParent[c.g] = c.n
             /\ pRight[c.p] = nL /\ (nL # NULL => pParent[nL] = c.p)
             /\ pLeft[c.g] = nR /\ (nR # NULL => pParent[nR] = c.g)
             /\ OrderedUnder(c.n)
             /\ isRed[c.g] /\ ~isRed[c.n]
             /\ pParent[c.n] \notin {c.n, c.p, c.g}
    /\ (Rotated /\ c.case = "4d")
          => /\ pRight[c.n] = c.p /\ pParent[c.p] = c.n
             /\ pLeft[c.n] = c.g /\ pParent[c.g] = c.n
             /\ pLeft[c.p] = nR /\ (nR # NULL => pParent[nR] = c.p)
             /\ pRight[c.g] = nL /\ (nL # NULL => pParent[nL] = c.g)
             /\ OrderedUnder(c.n)
             /\ isRed[c.g] /\ ~isRed[c.n]
             /\ pParent[c.n] \notin {c.n, c.p, c.g}

\* the call of balance() logged first took the red-aunt case and returned
Recolored ==
    /\ op.name \in {"insert", "balance"} /\ status = "ok" /\ hist # <<>>
    /\ hist[1].case = "3"

\* the red-aunt case left the links of the node and of its parent as they were
NoRotationAtNode ==
    LET c == hist[1] IN
    /\ pParent[c.n] = c.p
    /\ pLeft[c.p] = c.h.pLeft[c.p] /\ pRight[c.p] = c.h.pRight[c.p]
    /\ pLeft[c.n] = c.h.pLeft[c.n] /\ pRight[c.n] = c.h.pRight[c.n]
    /\ pLeft[c.aunt] = c.h.pLeft[c.aunt] /\ pRight[c.aunt] = c.h.pRight[c.aunt]

(* C25 (as amended) -- in the red-aunt case the balancer performs no       *)
(* rotation at the new node's level; when the call returns the parent and  *)
(* the aunt are black, and the grandparent is red unless the balance from  *)
(* the grandparent found it to be the root or made it the top of a zig-zag *)
(* rotation, in which cases it is black.                                   *)
C25_RedAunt ==
    Recolored =>
        LET c == hist[1] IN
        /\ NoRotationAtNode
        /\ ~isRed[c.p] /\ ~isRed[c.aunt]
        /\ isRed[c.g] <=> ~(hist[2].n = c.g /\ hist[2].case \in {"1", "4c", "4d"})

\* C25 as stated: the grandparent is red unless it is the root, and then black
C25_AsStated ==
    Recolored =>
        LET c == hist[1] IN
        /\ NoRotationAtNode
        /\ ~isRed[c.p] /\ ~isRed[c.aunt]
        /\ isRed[c.g] <=> pParent[c.g] # NULL

C25_Witness ==
    /\ Recolored /\ op.name = "balance"
    /\ hist[2].n = hist[1].g /\ hist[2].case \in {"4c", "4d"} /\ hist[2].gg # NULL
    /\ ~isRed[hist[1].g] /\ pParent[hist[1].g] # NULL
    /\ ~isRed[hist[1].p] /\ ~isRed[hist[1].aunt]

(* C26 -- every insert call terminates for every reachable tree: the       *)
(* balancer's recursion moves strictly upward and ends, and the loop that  *)
(* re-derives the root by following parent links reaches a node with no    *)
(* parent.                                                                 *)
C26_InsertTerminates ==
    op.name = "insert" => status # "hung"

\* erase(it) completes on a node that has a parent and at most one child
ErasesBelowRoot ==
    /\ op'.name = "erase" /\ status = "ok" /\ status' = "ok"
    /\ ret.it \in Nodes /\ ret.it \in freed' \ freed
    /\ pParent[ret.it] # NULL
    /\ pLeft[ret.it] = NULL \/ pRight[ret.it] = NULL

\* the fields of node m that are the same before and after the step
SameLinks(m) ==
    /\ pLeft'[m] = pLeft[m] /\ pRight'[m] = pRight[m] /\ pParent'[m] = pParent[m]

SameValue(m) == data'[m] = data[m] /\ isRed'[m] = isRed[m]

(* C27 -- erasing a non-root node with no children empties exactly the     *)
(* parent's child slot that held it; erasing a non-root node with exactly  *)
(* one child stores that child in the parent's slot that held the erased   *)
(* node and sets the child's parent link to the erased node's parent; in   *)
(* both cases the parent's other child slot and every other node are       *)
(* untouched.                                                              *)
C27_EraseBelowRoot ==
    [][ErasesBelowRoot =>
          LET n == ret.it
              p == pParent[ret.it]
              c == IF pLeft[ret.it] # NULL THEN pLeft[ret.it] ELSE pRight[ret.it]
          IN  /\ pLeft'[p] = (IF pLeft[p] = n THEN c ELSE pLeft[p])
              /\ pRight'[p] = (IF pRight[p] = n THEN c ELSE pRight[p])
              /\ pParent'[p] = pParent[p] /\ SameValue(p)
              /\ c # NULL => /\ pParent'[c] = p
                             /\ pLeft'[c] = pLeft[c] /\ pRight'[c] = pRight[c]
                             /\ SameValue(c)
              /\ \A m \in Nodes \ {n, p, c} : SameLinks(m) /\ SameValue(m)
              /\ root' = root
       ]_vars

\* erase(it) is called on the root, which has at most one child
ErasesRoot ==
    /\ op'.name = "erase" /\ status = "ok"
    /\ ret.it \in Nodes \ freed /\ ret.it = root /\ pParent[ret.it] = NULL
    /\ pLeft[ret.it] = NULL \/ pRight[ret.it] = NULL

(* C28 -- erase applied to an iterator referencing the root when the root  *)
(* has no child or exactly one child never follows a null parent link:     *)
(* erasing the only element leaves the tree empty (root null, size 0,      *)
(* begin() equals end()), and erasing a one-child root makes the surviving *)
(* child the new root with a null parent.                                  *)
C28_EraseRoot ==
    [][ErasesRoot =>
          LET c == IF pLeft[ret.it] # NULL THEN pLeft[ret.it] ELSE pRight[ret.it]
          IN  /\ status' = "ok"
              /\ c = NULL => /\ root' = NULL /\ numElements' = 0
                             /\ \E after \in {Heap'} : begin(after, root') = NULL
              /\ c # NULL => root' = c /\ pParent'[c] = NULL
       ]_vars

\* the nodes under n in in-order sequence: left subtree, n, right subtree
RECURSIVE Below(_, _, _)
Below(h, n, fuel) ==
    IF n = NULL \/ fuel = 0 THEN <<>>
    ELSE Below(h, h.pLeft[n], fuel - 1) \o <<n>> \o Below(h, h.pRight[n], fuel - 1)

\* the node that follows n in sequence w (NULL: n is the last one)
Following(w, n) ==
    IF w[Len(w)] = n THEN NULL ELSE w[(CHOOSE i \in 1..Len(w) : w[i] = n) + 1]

\* erase(it) completes and destroys the node it references
ErasesNode ==
    /\ op'.name = "erase" /\ status = "ok" /\ status' = "ok"
    /\ ret.it \in Nodes /\ ret.it \in freed' \ freed

(* C29 -- in every structural case in which erase completes, the iterator  *)
(* it returns references the element that immediately followed the erased  *)
(* element in in-order sequence before the erase, or equals end() when the *)
(* erased element was the largest; the returned iterator never references  *)
(* the destroyed node.                                                     *)
C29_EraseReturnsSuccessor ==
    [][ErasesNode =>
          /\ ret'.it # ret.it
          /\ \E w \in {Below(Heap, root, MaxNodes + 1)} :
                Cardinality({i \in 1..Len(w) : w[i] = ret.it}) = 1
                   => ret'.it = Following(w, ret.it)
       ]_vars

\* sequence w without its first v
Without(w, v) ==
    IF \E i \in 1..Len(w) : w[i] = v
    THEN LET k == CHOOSE i \in 1..Len(w) : w[i] = v /\ \A j \in 1..(i - 1) : w[j] # v
         IN  SubSeq(w, 1, k - 1) \o SubSeq(w, k + 1, Len(w))
    ELSE w

\* erase(it) completes on an element of a tree with BST ordering and consistent
\* links that is not a root with fewer than two children
ErasesInOrderedTree ==
    /\ ErasesNode
    /\ LinksAgree /\ BSTOrdered /\ ret.it \in TreeNodes
    /\ pParent[ret.it] # NULL \/ (pLeft[ret.it] # NULL /\ pRight[ret.it] # NULL)

(* C30 -- for every tree with BST ordering and consistent links and every  *)
(* element x at a non-root or two-children position, after erase of x the  *)
(* in-order sequence from begin() to end() is exactly the previous         *)
(* in-order sequence with that one occurrence of x removed.                *)
C30_EraseKeepsOthers ==
    [][ErasesInOrderedTree =>
          \E before \in {InOrder}, after \in {Heap'} :
              HUNG \notin Range(before)
                 => Walk(after, begin(after, root'), MaxNodes + 1) = Without(before, data[ret.it])
       ]_vars

\* the nodes whose links erase(it) may write: the parent and the children of the
\* erased node, its successor, and the parent and right child of the successor
Relinked ==
    LET n == ret.it
        s == increment(Heap, ret.it)
    IN  ({pParent[n], pLeft[n], pRight[n]}
         \cup (IF s \in Nodes THEN {s, pParent[s], pRight[s]} ELSE {})) \ {NULL}

(* C31 -- erase performs no rebalancing: it changes the color of no        *)
(* surviving node and performs no rotation (it writes no link of a node    *)
(* other than the neighbours of the erased node and of its successor), so  *)
(* a node spliced into a new position, the root position included, keeps   *)
(* the color it had before.                                                *)
C31_EraseKeepsColors ==
    [][ErasesNode =>
          /\ \A m \in Nodes : isRed'[m] = isRed[m]
          /\ \A m \in Nodes \ ({ret.it} \cup Relinked) : SameLinks(m)
          /\ \A m \in Nodes : data'[m] = data[m]
       ]_vars

\* a two-children erase has put the successor, of the other color, in the place of
\* the erased node (whose bytes are as the erase found them)
C31_Witness ==
    /\ op.name = "erase" /\ status = "ok" /\ ret.it \in Nodes \ freed
    /\ \E n \in freed :
          /\ pLeft[n] # NULL /\ pRight[n] # NULL
          /\ pLeft[ret.it] = pLeft[n] /\ pParent[ret.it] = pParent[n]
          /\ isRed[ret.it] # isRed[n]

\* the link graph is a tree: the root has no parent, each child names its parent,
\* each node with a parent is in one of its slots, and the parent links lead from
\* every node to the root
WellFormedTree ==
    /\ root # NULL => pParent[root] = NULL
    /\ \A n \in TreeNodes :
          /\ pLeft[n] # NULL => pParent[pLeft[n]] = n
          /\ pRight[n] # NULL => pParent[pRight[n]] = n
          /\ pParent[n] # NULL => n \in {pLeft[pParent[n]], pRight[pParent[n]]}
          /\ rootOf(Heap, n, MaxNodes + 1) = root

(* C32 -- after every sequence of insert, erase, clear, swap and assign    *)
(* operations the link graph is a well-formed tree: the root has a null    *)
(* parent, every non-null child link c of a node n satisfies c.parent = n, *)
(* every node with a parent occupies one of that parent's child slots, and *)
(* following parent links from any node reaches the root without a cycle.  *)
C32_WellFormedTree ==
    status = "ok" => WellFormedTree

(* C33 -- after every sequence of insert, erase, clear, swap and assign    *)
(* operations size() equals the number of nodes reachable from the root    *)
(* through child links: no inserted element becomes unreachable while      *)
(* still being counted.                                                    *)
C33_SizeIsReachable ==
    status = "ok" => numElements = Cardinality(TreeNodes)

(* C34 -- whenever insert(v, keepUnique) returns inserted = true, the      *)
(* iterator it returns is not end() and references the newly created node, *)
(* so dereferencing it yields v, for every tree shape and insertion depth, *)
(* inserts that trigger a rotation included.                               *)
C34_InsertReturnsNewNode ==
    [][(op'.name = "insert" /\ status' = "ok" /\ ret'.second)
          => /\ ret'.it # NULL
             /\ ret'.it \in allocated' \ allocated
             /\ data'[ret'.it] = op'.t
       ]_vars

\* how many times v comes in sequence w
Count(w, v) == Cardinality({i \in 1..Len(w) : w[i] = v})

NonDecreasing(w) == \A i \in 1..(Len(w) - 1) : w[i] <= w[i + 1]

(* C35 -- for every sequence of insert(value, keepUnique = false) calls,   *)
(* repeated equal values included, iterating from begin() to end() yields  *)
(* a non-decreasing sequence that contains each value exactly as many      *)
(* times as it was inserted, and size() equals the number of insert calls. *)
C35_MultisetInserts ==
    status = "ok" =>
        /\ HUNG \notin Range(InOrder)
        /\ NonDecreasing(InOrder)
        /\ \A v \in Values : Count(InOrder, v) = Count(hist, v)
        /\ numElements = Len(hist)

\* the node before n in sequence w (NULL: n is the first one)
Preceding(w, n) ==
    IF w[1] = n THEN NULL ELSE w[(CHOOSE i \in 1..Len(w) : w[i] = n) - 1]

\* the iterator of the last call references an element of a tree with BST ordering
\* and consistent links, none of whose nodes was deleted
OnOrderedTree ==
    /\ status = "ok" /\ WellFormedTree /\ BSTOrdered
    /\ TreeNodes \cap freed = {} /\ ret.it \in TreeNodes

(* C36 -- on every tree with BST ordering and consistent links: for every  *)
(* element other than the largest, ++ moves the iterator to the element    *)
(* next in in-order sequence; for every element other than the smallest,   *)
(* -- moves it to the in-order predecessor; ++ and -- applied to the end   *)
(* iterator leave it equal to end().                                       *)
C36_StepInOrder ==
    [][\E w \in {Below(Heap, root, MaxNodes + 1)} :
          /\ (op'.name = "++" /\ OnOrderedTree /\ ret.it # w[Len(w)])
                => (status' = "ok" /\ ret'.it = Following(w, ret.it))
          /\ (op'.name = "--" /\ OnOrderedTree /\ ret.it # w[1])
                => (status' = "ok" /\ ret'.it = Preceding(w, ret.it))
          /\ (op'.name \in {"++", "--"} /\ status = "ok" /\ ret.it = NULL)
                => (status' = "ok" /\ ret'.it = NULL)
       ]_vars

\* ++ has climbed two levels or more: it is on a node whose predecessor is the right
\* child, or lower, of its left child
C36_Witness ==
    /\ op.name = "++" /\ OnOrderedTree
    /\ pLeft[ret.it] # NULL /\ pRight[pLeft[ret.it]] # NULL

\* the nodes the links lead to from the root r of a tree
Owned(h, r) == Linked(h, {r} \ {NULL}, MaxNodes)

(* C37 -- move construction and move assignment transfer the source's      *)
(* nodes to the destination without copying and leave the source empty     *)
(* (root null, size 0); move assignment first destroys the destination's   *)
(* previous nodes, so afterwards the destination holds exactly the         *)
(* source's former elements and size.                                      *)
C37_Move ==
    /\ [][op'.name = "BST&&"
            => /\ status' = "ok"
               /\ rhs' = This /\ root' = NULL /\ numElements' = 0
               /\ Heap' = Heap /\ allocated' = allocated /\ freed' = freed]_vars
    /\ [][op'.name = "=&&"
            => \E before \in {Heap}, after \in {Heap'} :
               /\ status' = "ok"
               /\ root' = rhs.root /\ numElements' = rhs.numElements
               /\ rhs' = Empty
               /\ allocated' \subseteq allocated
               /\ \A n \in Owned(before, rhs.root) :
                      /\ after.data[n] = before.data[n] /\ after.isRed[n] = before.isRed[n]
                      /\ after.pLeft[n] = before.pLeft[n] /\ after.pRight[n] = before.pRight[n]
                      /\ after.pParent[n] = before.pParent[n]
               /\ Reach(before, root, MaxNodes + 1) \cap allocated' = {}]_vars

-----------------------------------------------------------------------------
(* The debug verifier, BNode::findDepth and BNode::verifyRedBlack.         *)

\* int findDepth() const: the black nodes on the path that goes right where it can
RECURSIVE findDepth(_, _, _)
findDepth(h, n, fuel) ==
    LET own == IF h.isRed[n] THEN 0 ELSE 1 IN
    IF fuel = 0 THEN 0
    ELSE IF h.pRight[n] = NULL /\ h.pLeft[n] = NULL THEN own
    ELSE IF h.pRight[n] # NULL THEN own + findDepth(h, h.pRight[n], fuel - 1)
    ELSE own + findDepth(h, h.pLeft[n], fuel - 1)

\* the operand `nullptr` of && converts to false
NullptrAsBool == FALSE

\* rule d as written: if (pLeft == nullptr && pRight && nullptr) if (depth != 0) fReturn = false
RuleD(h, n, depth) ==
    (h.pLeft[n] = NULL /\ h.pRight[n] # NULL /\ NullptrAsBool) => depth = 0

\* bool verifyRedBlack(int depth) const
RECURSIVE verifyRedBlack(_, _, _, _)
verifyRedBlack(h, n, depth, fuel) ==
    LET d == depth - (IF h.isRed[n] THEN 0 ELSE 1) IN
    IF fuel = 0 THEN TRUE
    ELSE
        /\ h.pParent[n] = NULL => ~h.isRed[n]
        /\ h.isRed[n] =>
              /\ h.pLeft[n] # NULL => ~h.isRed[h.pLeft[n]]
              /\ h.pRight[n] # NULL => ~h.isRed[h.pRight[n]]
        /\ RuleD(h, n, d)
        /\ h.pLeft[n] # NULL => verifyRedBlack(h, h.pLeft[n], d, fuel - 1)
        /\ h.pRight[n] # NULL => verifyRedBlack(h, h.pRight[n], d, fuel - 1)

\* root->verifyRedBlack(root->findDepth()) on a tree that has a root: the recursion
\* follows every child link, so it reads deleted nodes and does not end on a cycle
VerifyRedBlack ==
    /\ status = "ok" /\ root # NULL
    /\ op' = [name |-> "verifyRedBlack"]
    /\ IF ({root} \cup Reach(Heap, root, MaxNodes + 1)) \cap freed # {}
       THEN status' = "crashed" /\ UNCHANGED ret
       ELSE IF -1 \in BlackCounts(Heap, root, MaxNodes + 1)
       THEN status' = "hung" /\ UNCHANGED ret
       ELSE /\ ret' = [it |-> NULL,
                       second |-> verifyRedBlack(Heap, root, findDepth(Heap, root, MaxNodes + 1),
                                                 MaxNodes + 1)]
            /\ UNCHANGED status
    /\ UNCHANGED <<treeVars, rhs, dataSecond, hist, workload>>

NextVerify ==
    \/ \E t \in Values : insert(t, TRUE)
    \/ \E t \in Values : Find(t)
    \/ Erase
    \/ VerifyRedBlack

\* unique inserts, one erase, and the verifier run on what they leave
SpecVerify == Init /\ [][NextVerify]_vars

(* C38 -- root->verifyRedBlack(root->findDepth()) returns true exactly     *)
(* when the root is black, no red node has a red child and every path from *)
(* the root to a missing child has the same number of black nodes; it      *)
(* returns false for a tree whose paths have different black counts.       *)
C38_VerifierIsExact ==
    (op.name = "verifyRedBlack" /\ status = "ok") =>
        (ret.second <=> (RootIsBlack /\ NoRedRed /\ EqualBlackCounts))

====
